---- MODULE Spec2Model ----
(***************************************************************************)
(* Model of the organization directory service (yomoshio/rest-test).      *)
(*                                                                         *)
(* The state is the committed database: the activities, buildings,        *)
(* organizations, organization_phones and organization_activity tables    *)
(* and the three id sequences.  A service method is an operator from the  *)
(* committed database and a request to a result: the outcome, the         *)
(* database as the method's own commits left it, and the attribute        *)
(* changes still pending in the session when the method ended.  The       *)
(* session runs with autoflush off, so a query filters on committed rows  *)
(* while an attribute read sees the pending value of a loaded object.     *)
(* In most specifications requests run to completion one at a time and   *)
(* each action is one request.  Where calls overlap (tasks) or a run can  *)
(* stop half way (seeding), each action is one round trip to the store.   *)
(***************************************************************************)
EXTENDS Integers, Sequences, FiniteSets, Bags, TLC

VARIABLES activities, activity_seq,
          buildings, building_seq,
          organizations, organization_seq,
          organization_phones, organization_activity,
          requests, sessions, seeding, tasks

vars == <<activities, activity_seq, buildings, building_seq,
          organizations, organization_seq,
          organization_phones, organization_activity,
          requests, sessions, seeding, tasks>>

\* the committed database as one value
db == [activities |-> activities, activity_seq |-> activity_seq,
       buildings |-> buildings, building_seq |-> building_seq,
       organizations |-> organizations, organization_seq |-> organization_seq,
       organization_phones |-> organization_phones,
       organization_activity |-> organization_activity]

\* d is the committed database of the next state
Commits(d) ==
    /\ activities' = d.activities
    /\ activity_seq' = d.activity_seq
    /\ buildings' = d.buildings
    /\ building_seq' = d.building_seq
    /\ organizations' = d.organizations
    /\ organization_seq' = d.organization_seq
    /\ organization_phones' = d.organization_phones
    /\ organization_activity' = d.organization_activity

\* a request that runs from its first step to its last in one step leaves
\* d as the committed database
Becomes(d) == Commits(d) /\ UNCHANGED <<requests, sessions, seeding, tasks>>

----------------------------------------------------------------------------
(* Bounds *)

\* ids the activities sequence hands out in SpecTree
MaxTreeActivities == 4

\* ids the buildings and organizations sequences hand out in SpecBuildings
MaxBuildings == 3
MaxTenants == 2

\* ids the sequences hand out in SpecCatalog
MaxSites == 1
MaxActivities == 2
MaxOrganizations == 2

\* ids the activities and organizations sequences hand out in
\* SpecActivityFilter
MaxKinds == 3
MaxFirms == 1

\* requests received in SpecRequests
MaxRequests == 2

\* ids the buildings sequence hands out in SpecCoordinates
MaxPlaces == 3

\* buildings of SpecBuildingRace and the calls that overlap there
MaxRaceSites == 1
MaxBuildingRaceCalls == 3

\* ids the buildings and organizations sequences hand out in SpecGeo
MaxGeoSites == 2
MaxGeoFirms == 2

\* ids the organizations and activities sequences hand out in SpecListing,
\* and the pages asked for there
MaxListed == 3
MaxTags == 1
MaxPage == 3

ActivityNames == {"Food", "Meat"}
OrganizationNames == {"Cafe"}

\* the characters of the names and name queries of SpecListing, in lower
\* case
LowerCharacters ==
    [text \in {"", "Cafe", "Bakery", "caf"} |->
        CASE text = "" -> <<>>
          [] text = "Cafe" -> <<"c", "a", "f", "e">>
          [] text = "Bakery" -> <<"b", "a", "k", "e", "r", "y">>
          [] text = "caf" -> <<"c", "a", "f">>]
Addresses == {"Lenina 1", "Mira 2"}
Latitudes == {0, 91}
Longitudes == {180, 181}

\* longitudes of the buildings of SpecGeo, all on the equator
GeoLongitudes == {0, 1, 2}

\* coordinates at, inside and beyond the ends of the ranges
EdgeLatitudes == {-91, -90, 0, 90, 91}
EdgeLongitudes == {-181, -180, 180, 181}
\* phone numbers, character by character
Plus7 == <<"+", "7">>
Eight8 == <<"8", "8">>
Seven7 == <<"7", "7">>
PhoneNumbers == {Plus7, Eight8}

\* phone_numbers lists of a request: none, one, two, one number twice
PhoneLists == {<<>>, <<Plus7>>, <<Plus7, Eight8>>, <<Eight8, Eight8>>}

\* activity_ids lists of a request over the ids S: none, one, two
\* (one id twice included)
\* runs of the seeding utility in SpecSeed
MaxSeedRuns == 3

\* create_activity calls under way at once in SpecCreateRace
MaxCreators == 3

\* create_organization calls, and the ids the buildings and activities
\* sequences hand out, in SpecOrganizationCalls
MaxOrganizationCalls == 2
MaxCallSites == 1
MaxCallActivities == 1

\* update_activity calls under way at once in SpecReparentRace, and the
\* ids the activities sequence hands out there
MaxReparents == 2
MaxRaceActivities == 2

IdLists(S) == {<<>>} \cup {<<a>> : a \in S} \cup {<<a, b>> : a \in S, b \in S}

----------------------------------------------------------------------------
(* Values *)

\* a NULL column, a Python None
None == -1

\* Python truthiness of an Optional[int]: None and 0 are falsy
Truthy(x) == x # None /\ x # 0

EmptyFn == [x \in {} |-> 0]

\* the in-memory object of an activity row: its pending attribute values
\* when the session has modified it, the committed row otherwise
Obj(acts, pending, id) == IF id \in DOMAIN pending THEN pending[id] ELSE acts[id]

\* flush: pending attribute values written over the rows
Flush(acts, pending) ==
    [a \in DOMAIN acts |-> IF a \in DOMAIN pending THEN pending[a] ELSE acts[a]]

\* the foreign key activities.parent_id -> activities.id
ParentFKHolds(acts) ==
    \A a \in DOMAIN acts : acts[a].parent_id = None \/ acts[a].parent_id \in DOMAIN acts

\* what a service method hands back: outcome is "ok", "absent" (None or
\* False returned) or the exception raised; d is the committed database
Result(outcome, err, d, id, pending) ==
    [outcome |-> outcome, err |-> err, db |-> d, id |-> id, pending |-> pending]

\* the rows of a set of ids in ascending or descending id order: a query
\* without ORDER BY returns its rows in an order the store chooses
RECURSIVE RowOrder(_, _)
RowOrder(S, asc) ==
    IF S = {} THEN <<>>
    ELSE LET x == IF asc THEN CHOOSE m \in S : \A y \in S : m <= y
                         ELSE CHOOSE m \in S : \A y \in S : m >= y
         IN <<x>> \o RowOrder(S \ {x}, asc)

----------------------------------------------------------------------------
(* ActivityService *)

\* the walk of _would_create_cycle over committed parent_id columns:
\* "cycle" when activity_id is met, "clear" when the walk ends,
\* "diverges" when it would never end
RECURSIVE CycleWalk(_, _, _, _)
CycleWalk(acts, activity_id, current_id, fuel) ==
    IF ~Truthy(current_id) THEN "clear"
    ELSE IF current_id = activity_id THEN "cycle"
    ELSE IF fuel = 0 THEN "diverges"
    ELSE LET parent == IF current_id \in DOMAIN acts
                       THEN acts[current_id].parent_id ELSE None
         IN CycleWalk(acts, activity_id, IF Truthy(parent) THEN parent ELSE None, fuel - 1)

\* mutant: only the candidate parent itself is compared, its ancestors are not walked
_would_create_cycle_no_walk(acts, activity_id, new_parent_id) ==
    IF Truthy(new_parent_id) /\ new_parent_id = activity_id THEN "cycle" ELSE "clear"

_would_create_cycle(acts, activity_id, new_parent_id) ==
    CycleWalk(acts, activity_id, new_parent_id, Cardinality(DOMAIN acts))

\* mutant: NULL compared with "=", which no row satisfies
SiblingsNamed_null_never_equal(acts, name, parent_id, exclude_id) ==
    {a \in DOMAIN acts : /\ acts[a].name = name
                         /\ parent_id # None
                         /\ acts[a].parent_id = parent_id
                         /\ a # exclude_id}

\* the uniqueness query: rows with this name and parent_id (IS NULL for
\* None), other than exclude_id
SiblingsNamed(acts, name, parent_id, exclude_id) ==
    {a \in DOMAIN acts : /\ acts[a].name = name
                         /\ acts[a].parent_id = parent_id
                         /\ a # exclude_id}

\* mutant: the levels of the children are left as they were
_update_children_levels_skipped(acts, st, parent_id, asc) == st

\* mutant: the levels of the children are set, those of their own
\* children are left as they were
_update_children_levels_one_level(acts, st, parent_id, asc) ==
    LET children == IF parent_id \in DOMAIN acts
                    THEN {c \in DOMAIN acts : acts[c].parent_id = parent_id}
                    ELSE {}
        new_level == Obj(acts, st.pending, parent_id).level + 1
    IN IF children = {} THEN st
       ELSE IF new_level > 3 THEN [st EXCEPT !.raised = TRUE]
       ELSE [st EXCEPT !.pending =
                [x \in DOMAIN st.pending \cup children |->
                    IF x \in children
                    THEN [Obj(acts, st.pending, x) EXCEPT !.level = new_level]
                    ELSE st.pending[x]]]

\* st = [pending, raised]
RECURSIVE _update_children_levels(_, _, _, _)
RECURSIVE ChildrenLoop(_, _, _, _, _)
_update_children_levels(acts, st, parent_id, asc) ==
    IF parent_id \notin DOMAIN acts THEN st
    ELSE ChildrenLoop(acts, st, parent_id,
                      RowOrder({c \in DOMAIN acts : acts[c].parent_id = parent_id}, asc),
                      asc)

\* the for loop of _update_children_levels over the fetched children
ChildrenLoop(acts, st, parent_id, children, asc) ==
    IF st.raised \/ children = <<>> THEN st
    ELSE LET child == Head(children)
             new_level == Obj(acts, st.pending, parent_id).level + 1
         IN IF new_level <= 3
            THEN LET row == [Obj(acts, st.pending, child) EXCEPT !.level = new_level]
                     st1 == [st EXCEPT !.pending =
                                [x \in DOMAIN st.pending \cup {child} |->
                                    IF x = child THEN row ELSE st.pending[x]]]
                     st2 == _update_children_levels(acts, st1, child, asc)
                 IN ChildrenLoop(acts, st2, parent_id, Tail(children), asc)
            ELSE [st EXCEPT !.raised = TRUE]

create_activity(d, name, parent_id) ==
    LET acts == d.activities
        seq == d.activity_seq
        fail(outcome, err) == Result(outcome, err, d, 0, EmptyFn)
        level == IF Truthy(parent_id) THEN acts[parent_id].level + 1 ELSE 1
        existing == SiblingsNamed(acts, name, parent_id, 0)
        row == [name |-> name, parent_id |-> parent_id, level |-> level]
        inserted == [a \in DOMAIN acts \cup {seq} |-> IF a = seq THEN row ELSE acts[a]]
    IN IF Truthy(parent_id) /\ parent_id \notin DOMAIN acts
          THEN fail("ValueError", "parent_not_found")
       ELSE IF Truthy(parent_id) /\ acts[parent_id].level >= 3
          THEN fail("ValueError", "max_depth")
       ELSE IF Cardinality(existing) > 1
          THEN fail("MultipleResultsFound", "multiple_rows")
       ELSE IF existing # {}
          THEN fail("ValueError", "duplicate_name")
       ELSE IF ~ParentFKHolds(inserted)
          \* the INSERT has drawn its id from the sequence when the store
          \* rejects the row
          THEN Result("IntegrityError", "foreign_key",
                      [d EXCEPT !.activity_seq = seq + 1], 0, EmptyFn)
       ELSE Result("ok", "", [d EXCEPT !.activities = inserted,
                                       !.activity_seq = seq + 1], seq, EmptyFn)

update_activity(d, activity_id, name, parent_id, asc) ==
    LET acts == d.activities
        fail(outcome, err, pending) == Result(outcome, err, d, 0, pending)
        cyc == _would_create_cycle(acts, activity_id, parent_id)
        level == IF Truthy(parent_id) THEN acts[parent_id].level + 1 ELSE 1
        pending1 == (activity_id :> [acts[activity_id] EXCEPT !.level = level])
        existing == SiblingsNamed(acts, name, parent_id, activity_id)
        pending2 == (activity_id :> [name |-> name, parent_id |-> parent_id,
                                     level |-> level])
        st == _update_children_levels(acts, [pending |-> pending2, raised |-> FALSE],
                                      activity_id, asc)
        flushed == Flush(acts, st.pending)
    IN IF activity_id \notin DOMAIN acts
          THEN fail("absent", "", EmptyFn)
       ELSE IF Truthy(parent_id) /\ cyc = "diverges"
          THEN fail("diverges", "", EmptyFn)
       ELSE IF Truthy(parent_id) /\ cyc = "cycle"
          THEN fail("ValueError", "cycle", EmptyFn)
       ELSE IF Truthy(parent_id) /\ parent_id \notin DOMAIN acts
          THEN fail("ValueError", "parent_not_found", EmptyFn)
       ELSE IF Truthy(parent_id) /\ acts[parent_id].level >= 3
          THEN fail("ValueError", "max_depth", EmptyFn)
       ELSE IF Cardinality(existing) > 1
          THEN fail("MultipleResultsFound", "multiple_rows", pending1)
       ELSE IF existing # {}
          THEN fail("ValueError", "duplicate_name", pending1)
       ELSE IF st.raised
          THEN fail("ValueError", "subtree_depth", st.pending)
       ELSE IF ~ParentFKHolds(flushed)
          THEN fail("IntegrityError", "foreign_key", st.pending)
       ELSE Result("ok", "", [d EXCEPT !.activities = flushed], activity_id, EmptyFn)

\* mutant: the children count always comes back 0
ChildrenOfActivity_none(d, activity_id) == {}

\* the rows of the children count query of delete_activity
ChildrenOfActivity(d, activity_id) ==
    {c \in DOMAIN d.activities : d.activities[c].parent_id = activity_id}

\* the rows of the organization count query of delete_activity: the
\* organizations joined to the activity through organization_activity
OrganizationsOfActivity(d, activity_id) ==
    {oa \in d.organization_activity :
        oa[2] = activity_id /\ oa[1] \in DOMAIN d.organizations}

delete_activity(d, activity_id) ==
    LET acts == d.activities
        fail(outcome, err) == Result(outcome, err, d, 0, EmptyFn)
        org_count == Cardinality(OrganizationsOfActivity(d, activity_id))
        children_count == Cardinality(ChildrenOfActivity(d, activity_id))
    IN IF activity_id \notin DOMAIN acts
          THEN fail("absent", "")
       ELSE IF org_count > 0
          THEN fail("ValueError", "has_organizations")
       ELSE IF children_count > 0
          THEN fail("ValueError", "has_children")
       ELSE Result("ok", "",
                   [d EXCEPT !.activities = [a \in DOMAIN acts \ {activity_id} |-> acts[a]]],
                   activity_id, EmptyFn)

\* the loop of _would_create_cycle with its round trips counted: steps
\* is the number of parent_id queries it has sent; ended is FALSE when
\* the loop is still running after fuel of them
RECURSIVE CycleSteps(_, _, _, _)
CycleSteps(acts, activity_id, current_id, fuel) ==
    IF ~Truthy(current_id) \/ current_id = activity_id
    THEN [steps |-> 0, ended |-> TRUE]
    ELSE IF fuel = 0 THEN [steps |-> 0, ended |-> FALSE]
    ELSE LET parent == IF current_id \in DOMAIN acts
                       THEN acts[current_id].parent_id ELSE None
             rest == CycleSteps(acts, activity_id,
                                IF Truthy(parent) THEN parent ELSE None, fuel - 1)
         IN [steps |-> 1 + rest.steps, ended |-> rest.ended]

\* the while loop of get_activity_path from current upwards: path is the
\* list so far, steps the number of get_activity_by_id calls so far
RECURSIVE PathLoop(_, _, _, _, _)
PathLoop(acts, path, current, steps, fuel) ==
    LET parent_id == acts[current].parent_id
    IN IF ~Truthy(parent_id)
       THEN [path |-> path, steps |-> steps, ended |-> TRUE]
       ELSE IF fuel = 0 THEN [path |-> path, steps |-> steps, ended |-> FALSE]
       ELSE IF parent_id \in DOMAIN acts
       THEN PathLoop(acts, <<parent_id>> \o path, parent_id, steps + 1, fuel - 1)
       ELSE [path |-> path, steps |-> steps + 1, ended |-> TRUE]

get_activity_path(acts, activity_id, fuel) ==
    IF activity_id \notin DOMAIN acts
    THEN [path |-> <<>>, steps |-> 1, ended |-> TRUE]
    ELSE PathLoop(acts, <<activity_id>>, activity_id, 1, fuel)

----------------------------------------------------------------------------
(* geo_utils *)

\* calculate_distance, in metres, for two points on the equator, which is
\* where SpecGeo keeps its buildings and its search centres: the geodesic
\* of the WGS-84 ellipsoid along the equator is 111,319 m to the degree.
\* Lengths are in metres throughout, radius_km included, to stay in the
\* integers.
EquatorDegree == 111319

calculate_distance(lat1, lon1, lat2, lon2) ==
    CASE lat1 = 0 /\ lat2 = 0 ->
         EquatorDegree * (IF lon1 >= lon2 THEN lon1 - lon2 ELSE lon2 - lon1)

\* mutant: only the latitude is checked
validate_coordinates_latitude_only(latitude, longitude) ==
    -90 <= latitude /\ latitude <= 90

validate_coordinates(latitude, longitude) ==
    /\ -90 <= latitude /\ latitude <= 90
    /\ -180 <= longitude /\ longitude <= 180

----------------------------------------------------------------------------
(* BuildingService *)

\* mutant: the occupancy count always comes back 0
OrganizationsIn_none(d, building_id) == {}

\* the organizations of the occupancy query of delete_building
OrganizationsIn(d, building_id) ==
    {o \in DOMAIN d.organizations : d.organizations[o].building_id = building_id}

create_building(d, address, latitude, longitude) ==
    LET seq == d.building_seq
        row == [address |-> address, latitude |-> latitude, longitude |-> longitude]
    IN IF ~validate_coordinates(latitude, longitude)
          THEN Result("ValueError", "bad_coordinates", d, 0, EmptyFn)
       ELSE Result("ok", "",
                   [d EXCEPT !.buildings = [b \in DOMAIN d.buildings \cup {seq} |->
                                               IF b = seq THEN row ELSE d.buildings[b]],
                             !.building_seq = seq + 1],
                   seq, EmptyFn)

update_building(d, building_id, address, latitude, longitude) ==
    IF ~validate_coordinates(latitude, longitude)
       THEN Result("ValueError", "bad_coordinates", d, 0, EmptyFn)
    ELSE IF building_id \notin DOMAIN d.buildings
       THEN Result("absent", "", d, 0, EmptyFn)
    ELSE Result("ok", "",
                [d EXCEPT !.buildings[building_id] =
                    [address |-> address, latitude |-> latitude, longitude |-> longitude]],
                building_id, EmptyFn)

delete_building(d, building_id) ==
    IF building_id \notin DOMAIN d.buildings
       THEN Result("absent", "", d, 0, EmptyFn)
    ELSE IF Cardinality(OrganizationsIn(d, building_id)) > 0
       THEN Result("ValueError", "has_organizations", d, 0, EmptyFn)
    ELSE Result("ok", "",
                [d EXCEPT !.buildings = [b \in DOMAIN d.buildings \ {building_id} |->
                                            d.buildings[b]]],
                building_id, EmptyFn)

----------------------------------------------------------------------------
(* OrganizationService *)

\* an Optional list of a request: left out, or given (possibly empty)
Absent == [given |-> FALSE, items |-> <<>>]
Given(items) == [given |-> TRUE, items |-> items]

Elements(items) == {items[i] : i \in 1..Len(items)}

\* mutant: every building id is taken to exist
BuildingFound_always(d, building_id) == TRUE

\* the building lookup of create_organization and update_organization
BuildingFound(d, building_id) == building_id \in DOMAIN d.buildings

\* the check of create_organization on the fetched activities:
\* len(activities) != len(org_data.activity_ids) raises
ActivitiesResolved(d, activity_ids) ==
    Cardinality({a \in DOMAIN d.activities : a \in Elements(activity_ids)})
        = Len(activity_ids)

\* mutant: each phone replaces the one added before it
PhoneRows_last_only(organization_id, phone_numbers) ==
    IF phone_numbers = <<>> THEN EmptyBag
    ELSE SetToBag({[organization_id |-> organization_id,
                    phone_number |-> phone_numbers[Len(phone_numbers)]]})

\* the OrganizationPhone rows added for a list of numbers, one per item
RECURSIVE PhoneRows(_, _)
PhoneRows(organization_id, phone_numbers) ==
    IF phone_numbers = <<>> THEN EmptyBag
    ELSE SetToBag({[organization_id |-> organization_id,
                    phone_number |-> Head(phone_numbers)]})
         (+) PhoneRows(organization_id, Tail(phone_numbers))

\* the rows of a bag that satisfy keep
BagWithout(B, drop) == [r \in {x \in DOMAIN B : x \notin drop} |-> B[r]]

PhonesOfOrganization(d, org_id) ==
    {r \in DOMAIN d.organization_phones : r.organization_id = org_id}

\* the organization with its relations loaded, or None
get_organization_by_id(d, org_id) ==
    IF org_id \notin DOMAIN d.organizations THEN [found |-> FALSE]
    ELSE [found |-> TRUE,
          id |-> org_id,
          name |-> d.organizations[org_id].name,
          building_id |-> d.organizations[org_id].building_id,
          phones |-> {r.phone_number : r \in PhonesOfOrganization(d, org_id)},
          activities |-> {a \in DOMAIN d.activities :
                             <<org_id, a>> \in d.organization_activity}]

\* offset(skip).limit(limit) on the rows of a query
Page(rows, skip, limit) ==
    IF skip >= Len(rows) THEN <<>>
    ELSE SubSeq(rows, skip + 1,
                IF skip + limit < Len(rows) THEN skip + limit ELSE Len(rows))

\* mutant: the joined rows are returned as they are
DistinctRows_keeps_all(rows) == rows

\* .distinct(): each row once, at its first place
RECURSIVE DistinctRows(_)
DistinctRows(rows) ==
    IF rows = <<>> THEN <<>>
    ELSE LET rest == DistinctRows(SubSeq(rows, 1, Len(rows) - 1))
             last == rows[Len(rows)]
         IN IF last \in Elements(rest) THEN rest ELSE Append(rest, last)

\* get_children_recursive of _get_activity_with_children: the ids of the
\* children of parent_id, then those below each child; EachChild is its
\* loop over children_ids
RECURSIVE get_children_recursive(_, _)
RECURSIVE EachChild(_, _)
get_children_recursive(acts, parent_id) ==
    LET children_ids == RowOrder({c \in DOMAIN acts : acts[c].parent_id = parent_id},
                                 TRUE)
    IN children_ids \o EachChild(acts, children_ids)

EachChild(acts, children_ids) ==
    IF children_ids = <<>> THEN <<>>
    ELSE get_children_recursive(acts, Head(children_ids))
         \o EachChild(acts, Tail(children_ids))

_get_activity_with_children(acts, activity_id) ==
    <<activity_id>> \o get_children_recursive(acts, activity_id)

\* get_children_recursive with the shape of its recursion: ids is its
\* list, depth the number of levels below parent_id on which it is called
\* again, ended is FALSE when it is still recursing fuel calls deep
RECURSIVE ChildrenWalk(_, _, _)
RECURSIVE EachChildWalk(_, _, _)
ChildrenWalk(acts, parent_id, fuel) ==
    LET children_ids == RowOrder({c \in DOMAIN acts : acts[c].parent_id = parent_id},
                                 TRUE)
        below == EachChildWalk(acts, children_ids, fuel - 1)
    IN IF fuel = 0 THEN [ids |-> <<>>, depth |-> 0, ended |-> FALSE]
       ELSE [ids |-> children_ids \o below.ids,
             depth |-> IF children_ids = <<>> THEN 0 ELSE 1 + below.depth,
             ended |-> below.ended]

EachChildWalk(acts, children_ids, fuel) ==
    IF children_ids = <<>> THEN [ids |-> <<>>, depth |-> 0, ended |-> TRUE]
    ELSE LET first == ChildrenWalk(acts, Head(children_ids), fuel)
             rest == EachChildWalk(acts, Tail(children_ids), fuel)
         IN [ids |-> first.ids \o rest.ids,
             depth |-> IF first.depth > rest.depth THEN first.depth ELSE rest.depth,
             ended |-> first.ended /\ rest.ended]

\* the rows of select(Organization).join(Organization.activities).where(
\* Activity.id.in_(activity_ids)): an organization once per association
\* row to a listed activity
RECURSIVE JoinedOrganizations(_, _, _)
JoinedOrganizations(d, activity_ids, orgs) ==
    IF orgs = <<>> THEN <<>>
    ELSE LET o == Head(orgs)
             matches == {a \in DOMAIN d.activities :
                            /\ <<o, a>> \in d.organization_activity
                            /\ a \in Elements(activity_ids)}
         IN [i \in 1..Cardinality(matches) |-> o]
            \o JoinedOrganizations(d, activity_ids, Tail(orgs))

get_organizations_by_activity(d, activity_id, include_children, skip, limit, asc) ==
    LET activity_ids == IF include_children
                        THEN _get_activity_with_children(d.activities, activity_id)
                        ELSE <<activity_id>>
        rows == JoinedOrganizations(d, activity_ids,
                                    RowOrder(DOMAIN d.organizations, asc))
    IN Page(DistinctRows(rows), skip, limit)

\* GeoSearchSchema.validate_search_parameters
validate_search_parameters(geo_search) ==
    IF geo_search.search_type = "radius" THEN geo_search.radius_km # None
    ELSE /\ None \notin {geo_search.north_lat, geo_search.south_lat,
                         geo_search.east_lng, geo_search.west_lng}
         /\ geo_search.north_lat > geo_search.south_lat

\* mutant: BETWEEN without its ends
Between_exclusive(x, low, high) == low < x /\ x < high

\* column.between(low, high)
Between(x, low, high) == low <= x /\ x <= high

\* mutant: the rows of the query are returned as they are
WithinRadius_unfiltered(d, geo_search, orgs) == orgs

\* the loop over the organizations of the query in radius mode: those
\* whose building is at most radius_km from the centre
WithinRadius(d, geo_search, orgs) ==
    LET near(o) ==
          LET building == d.buildings[d.organizations[o].building_id]
          IN calculate_distance(geo_search.latitude, geo_search.longitude,
                                building.latitude, building.longitude)
                <= geo_search.radius_km
    IN SelectSeq(orgs, near)

\* func.cos(func.radians(latitude)), for a centre on the equator
CosRadians(latitude) == CASE latitude = 0 -> 1

\* the where clause of the query.  In radius mode it is the box of
\* lat_delta = radius_km / 111.0 degrees and lng_delta = radius_km /
\* (111.0 * cos(radians(latitude))) degrees around the centre; both sides
\* of each comparison are multiplied by the metres of a degree of the box.
GeoWhere(geo_search, building) ==
    IF geo_search.search_type = "radius" /\ Truthy(geo_search.radius_km)
    THEN LET lat_degree == 111000
             lng_degree == 111000 * CosRadians(geo_search.latitude)
         IN /\ Between(lat_degree * building.latitude,
                       lat_degree * geo_search.latitude - geo_search.radius_km,
                       lat_degree * geo_search.latitude + geo_search.radius_km)
            /\ Between(lng_degree * building.longitude,
                       lng_degree * geo_search.longitude - geo_search.radius_km,
                       lng_degree * geo_search.longitude + geo_search.radius_km)
    ELSE IF geo_search.search_type = "rectangle"
    THEN /\ Between(building.latitude, geo_search.south_lat, geo_search.north_lat)
         /\ Between(building.longitude, geo_search.west_lng, geo_search.east_lng)
    ELSE TRUE

\* mutant: the exact filter runs over every row of the query, the window
\* is cut afterwards
geo_search_organizations_filters_first(d, geo_search, skip, limit, asc) ==
    LET joined == RowOrder({o \in DOMAIN d.organizations :
                              d.organizations[o].building_id \in DOMAIN d.buildings},
                           asc)
        matches(o) == GeoWhere(geo_search, d.buildings[d.organizations[o].building_id])
    IN IF geo_search.search_type = "radius" /\ Truthy(geo_search.radius_km)
       THEN Page(WithinRadius(d, geo_search, SelectSeq(joined, matches)), skip, limit)
       ELSE Page(SelectSeq(joined, matches), skip, limit)

geo_search_organizations(d, geo_search, skip, limit, asc) ==
    LET joined == RowOrder({o \in DOMAIN d.organizations :
                              d.organizations[o].building_id \in DOMAIN d.buildings},
                           asc)
        matches(o) == GeoWhere(geo_search, d.buildings[d.organizations[o].building_id])
        organizations_page == Page(SelectSeq(joined, matches), skip, limit)
    IN IF geo_search.search_type = "radius" /\ Truthy(geo_search.radius_km)
       THEN WithinRadius(d, geo_search, organizations_page)
       ELSE organizations_page

get_all_organizations(d, skip, limit, asc) ==
    Page(RowOrder(DOMAIN d.organizations, asc), skip, limit)

get_organizations_by_building(d, building_id, skip, limit, asc) ==
    Page(RowOrder({o \in DOMAIN d.organizations :
                      d.organizations[o].building_id = building_id}, asc),
         skip, limit)

\* name ILIKE '%name_query%': the query, whatever the case of the letters,
\* is a part of the name (the menus have no % and no _ to escape)
ILike(name, name_query) ==
    LET hay == LowerCharacters[name]
        needle == LowerCharacters[name_query]
    IN \E i \in 0..(Len(hay) - Len(needle)) :
          SubSeq(hay, i + 1, i + Len(needle)) = needle

search_organizations_by_name(d, name_query, skip, limit, asc) ==
    Page(RowOrder({o \in DOMAIN d.organizations :
                      ILike(d.organizations[o].name, name_query)}, asc),
         skip, limit)

\* the count query: each filter that is set narrows it; the join on the
\* activities counts an organization once per matching association row
get_organizations_count(d, filters) ==
    LET activity_ids ==
          IF filters.include_child_activities
          THEN _get_activity_with_children(d.activities, filters.activity_id)
          ELSE <<filters.activity_id>>
        orgs == RowOrder({o \in DOMAIN d.organizations :
                   /\ Truthy(filters.building_id) =>
                         d.organizations[o].building_id = filters.building_id
                   /\ filters.name_query # "" =>
                         ILike(d.organizations[o].name, filters.name_query)}, TRUE)
    IN IF Truthy(filters.activity_id)
       THEN Len(JoinedOrganizations(d, activity_ids, orgs))
       ELSE Len(orgs)

create_organization(d, name, building_id, phone_numbers, activity_ids) ==
    LET seq == d.organization_seq
        \* the first commit: the bare organization
        d1 == [d EXCEPT !.organizations =
                           [o \in DOMAIN d.organizations \cup {seq} |->
                               IF o = seq THEN [name |-> name, building_id |-> building_id]
                               ELSE d.organizations[o]],
                        !.organization_seq = seq + 1]
        found == {a \in DOMAIN d.activities : a \in Elements(activity_ids)}
        \* the second commit: its association rows and its phones
        d2 == [d1 EXCEPT !.organization_activity =
                            d1.organization_activity \cup {<<seq, a>> : a \in found},
                         !.organization_phones =
                            d1.organization_phones (+) PhoneRows(seq, phone_numbers)]
    IN IF ~BuildingFound(d, building_id)
          THEN Result("ValueError", "building_not_found", d, 0, EmptyFn)
       ELSE IF activity_ids # <<>> /\ ~ActivitiesResolved(d, activity_ids)
          THEN Result("ValueError", "activities_not_found", d1, seq, EmptyFn)
       ELSE Result("ok", "", d2, seq, EmptyFn)

\* mutant: the lists are replaced whether they were supplied or not
update_organization_replaces_lists(d, org_id, name, building_id, phone_numbers, activity_ids) ==
    LET org == d.organizations[org_id]
        changes_building == Truthy(building_id) /\ building_id # org.building_id
        row == [name |-> IF name # "" THEN name ELSE org.name,
                building_id |-> IF changes_building THEN building_id ELSE org.building_id]
        found == {a \in DOMAIN d.activities : a \in Elements(activity_ids.items)}
        others == {oa \in d.organization_activity : oa[1] # org_id}
    IN IF org_id \notin DOMAIN d.organizations
          THEN Result("absent", "", d, 0, EmptyFn)
       ELSE IF changes_building /\ ~BuildingFound(d, building_id)
          THEN Result("ValueError", "building_not_found", d, 0, EmptyFn)
       ELSE Result("ok", "",
                   [d EXCEPT !.organizations[org_id] = row,
                             !.organization_activity =
                                others \cup {<<org_id, a>> : a \in found},
                             !.organization_phones =
                                BagWithout(@, PhonesOfOrganization(d, org_id))
                                (+) PhoneRows(org_id, phone_numbers.items)],
                   org_id, EmptyFn)

update_organization(d, org_id, name, building_id, phone_numbers, activity_ids) ==
    LET org == d.organizations[org_id]
        changes_building == Truthy(building_id) /\ building_id # org.building_id
        row == [name |-> IF name # "" THEN name ELSE org.name,
                building_id |-> IF changes_building THEN building_id ELSE org.building_id]
        found == {a \in DOMAIN d.activities : a \in Elements(activity_ids.items)}
        others == {oa \in d.organization_activity : oa[1] # org_id}
    IN IF org_id \notin DOMAIN d.organizations
          THEN Result("absent", "", d, 0, EmptyFn)
       ELSE IF changes_building /\ ~BuildingFound(d, building_id)
          THEN Result("ValueError", "building_not_found", d, 0, EmptyFn)
       ELSE Result("ok", "",
                   [d EXCEPT !.organizations[org_id] = row,
                             !.organization_activity =
                                IF activity_ids.given
                                THEN others \cup {<<org_id, a>> : a \in found}
                                ELSE @,
                             !.organization_phones =
                                IF phone_numbers.given
                                THEN BagWithout(@, PhonesOfOrganization(d, org_id))
                                     (+) PhoneRows(org_id, phone_numbers.items)
                                ELSE @],
                   org_id, EmptyFn)

\* mutant: the activities of the organization are deleted with it
delete_organization_with_activities(d, org_id) ==
    IF org_id \notin DOMAIN d.organizations
       THEN Result("absent", "", d, 0, EmptyFn)
    ELSE LET tagged == {a \in DOMAIN d.activities : <<org_id, a>> \in d.organization_activity}
         IN Result("ok", "",
                [d EXCEPT !.organization_phones =
                             BagWithout(@, PhonesOfOrganization(d, org_id)),
                          !.organization_activity = {oa \in @ : oa[1] # org_id},
                          !.activities = [a \in DOMAIN @ \ tagged |-> @[a]],
                          !.organizations =
                             [o \in DOMAIN d.organizations \ {org_id} |-> d.organizations[o]]],
                org_id, EmptyFn)

delete_organization(d, org_id) ==
    IF org_id \notin DOMAIN d.organizations
       THEN Result("absent", "", d, 0, EmptyFn)
    ELSE Result("ok", "",
                [d EXCEPT !.organization_phones =
                             BagWithout(@, PhonesOfOrganization(d, org_id)),
                          !.organization_activity = {oa \in @ : oa[1] # org_id},
                          !.organizations =
                             [o \in DOMAIN d.organizations \ {org_id} |-> d.organizations[o]]],
                org_id, EmptyFn)

----------------------------------------------------------------------------
(* routes *)

\* the status a route answers with: the success status of the route, 404
\* for an absent result, 400 for a ValueError, 500 for any other failure
RouteStatus(res, success) ==
    CASE res.outcome = "ok" -> success
      [] res.outcome = "absent" -> 404
      [] res.outcome = "ValueError" -> 400
      [] OTHER -> 500

----------------------------------------------------------------------------
(* schemas *)

\* PhoneCreate.validate_phone_number: v.startswith('+') or v.startswith('8')
validate_phone_number(v) == v # <<>> /\ Head(v) \in {"+", "8"}

\* what OrganizationCreate checks of phone_numbers: a List[str], each item
\* a string
OrganizationCreate_phone_numbers(phone_numbers) == TRUE

----------------------------------------------------------------------------
(* security *)

\* settings.api_key, at its default
settings_api_key == "your-secret-api-key"

\* the X-API-Key header of a request: APIKeyHeader(auto_error=False)
\* hands None to verify_api_key when the header is absent
NoHeader == [present |-> FALSE, value |-> ""]
Header(value) == [present |-> TRUE, value |-> value]

\* mutant: every key is accepted
verify_api_key_accepts_any(api_key) == "ok"

\* "ok" when the key is returned, else the HTTPException(401) raised
verify_api_key(api_key) ==
    IF ~api_key.present \/ api_key.value = "" THEN "missing"
    ELSE IF api_key.value # settings_api_key THEN "invalid"
    ELSE "ok"

----------------------------------------------------------------------------
(* The routes of the router and the exception handlers of the app *)

Routes ==
    {"get_organizations", "get_organization", "get_organizations_by_building",
     "get_organizations_by_activity", "search_organizations",
     "geo_search_organizations", "create_organization", "update_organization",
     "delete_organization", "get_buildings", "get_building", "create_building",
     "delete_building", "get_activities", "get_activity", "get_activities_tree",
     "create_activity", "delete_activity"}

\* the Depends(...) parameters of a route, in the order of its signature
Dependencies(route) == <<"get_async_db", "verify_api_key">>

\* status_code of the route decorator
SuccessStatus(route) ==
    IF route \in {"create_organization", "create_building", "create_activity"} THEN 201
    ELSE IF route \in {"delete_organization", "delete_building", "delete_activity"} THEN 204
    ELSE 200

\* the detail of the HTTPException(404) of a route, in English: the
\* routes say it in Russian
NotFoundDetail(route) ==
    IF route \in {"get_organization", "update_organization", "delete_organization"}
       THEN "Organization not found"
    ELSE IF route \in {"get_building", "delete_building"}
       THEN "Building not found"
    ELSE "Activity not found"

\* math.ceil(total / per_page)
Ceil(total, per_page) == (total + per_page - 1) \div per_page

\* mutant: the page number is taken as the number of rows to skip
Skip_page_number(page, per_page) == page

\* skip = (page - 1) * per_page
Skip(page, per_page) == (page - 1) * per_page

\* GET /organizations/: the envelope of the page.  A name_query that is
\* absent and one that is empty are both "": the route and the count
\* treat them alike.
get_organizations(d, page, per_page, building_id, activity_id, name_query, include_child_activities, asc) ==
    LET skip == Skip(page, per_page)
        filters == [building_id |-> building_id, activity_id |-> activity_id,
                    name_query |-> name_query,
                    include_child_activities |-> include_child_activities]
        orgs == IF Truthy(building_id)
                   THEN get_organizations_by_building(d, building_id, skip,
                                                      per_page, asc)
                ELSE IF Truthy(activity_id)
                   THEN get_organizations_by_activity(d, activity_id,
                            include_child_activities, skip, per_page, asc)
                ELSE IF name_query # ""
                   THEN search_organizations_by_name(d, name_query, skip,
                                                     per_page, asc)
                ELSE get_all_organizations(d, skip, per_page, asc)
        total == get_organizations_count(d, filters)
    IN [items |-> orgs, total |-> total, page |-> page, per_page |-> per_page,
        pages |-> Ceil(total, per_page)]

\* the service call of a route: arg is the id of the path, or picks the
\* body of a create request (0: one the service refuses)
Handler(d, route, arg) ==
    LET read(found) == Result(IF found THEN "ok" ELSE "absent", "", d, arg, EmptyFn)
    IN CASE route = "get_organization" -> read(get_organization_by_id(d, arg).found)
         [] route = "get_building" -> read(arg \in DOMAIN d.buildings)
         [] route = "get_activity" -> read(arg \in DOMAIN d.activities)
         [] route = "create_organization" ->
               create_organization(d, "Cafe", arg, <<>>, <<>>)
         [] route = "update_organization" ->
               update_organization(d, arg, "Bakery", None, Absent, Absent)
         [] route = "delete_organization" -> delete_organization(d, arg)
         [] route = "create_building" ->
               create_building(d, "Lenina 1", IF arg = 0 THEN 91 ELSE 0, 0)
         [] route = "delete_building" -> delete_building(d, arg)
         [] route = "create_activity" ->
               create_activity(d, "Food", IF arg = 0 THEN 0 ELSE None)
         [] route = "delete_activity" -> delete_activity(d, arg)
         [] OTHER -> read(TRUE)

\* what the body of a route does with the result of its service call: it
\* returns, raises HTTPException(404) for an absent result, turns a
\* ValueError into HTTPException(400), and lets anything else through
RouteOutcome(route, res) ==
    CASE res.outcome = "ok" ->
            [kind |-> "return", status_code |-> SuccessStatus(route), detail |-> ""]
      [] res.outcome = "absent" ->
            [kind |-> "HTTPException", status_code |-> 404,
             detail |-> NotFoundDetail(route)]
      [] res.outcome = "ValueError" ->
            [kind |-> "HTTPException", status_code |-> 400, detail |-> res.err]
      [] OTHER ->
            [kind |-> "Exception", status_code |-> 500, detail |-> res.outcome]

\* the HTTPException(401) of verify_api_key
Unauthorized(reason) ==
    [kind |-> "HTTPException", status_code |-> 401, detail |-> reason]

\* the response to the outcome of a route.  The app registers
\* not_found_handler for the status code 404, internal_error_handler for
\* 500 and http_exception_handler for the class HTTPException; for an
\* HTTPException the handler registered for its status code is looked up
\* before the handler of its class.
ExceptionHandlers(outcome) ==
    CASE outcome.kind = "return" ->
            [status_code |-> outcome.status_code, detail |-> ""]
      [] outcome.kind = "HTTPException" /\ outcome.status_code = 404 ->
            [status_code |-> 404, detail |-> "Endpoint not found"]
      [] outcome.kind = "HTTPException" /\ outcome.status_code # 404 ->
            [status_code |-> outcome.status_code, detail |-> outcome.detail]
      [] OTHER -> [status_code |-> 500, detail |-> "Internal server error"]

----------------------------------------------------------------------------
(* populate_db.py: the seeding utility *)

\* the fixture.  Names and addresses are English glosses of the Russian
\* ones; coordinates are in millionths of a degree; building is the index
\* of buildings[...] the organization names.
buildings_data ==
    <<[address |-> "Moscow, Tverskaya 1", latitude |-> 55759020, longitude |-> 37614558],
      [address |-> "Moscow, Arbat 15", latitude |-> 55752023, longitude |-> 37592159],
      [address |-> "Moscow, Red Square 1", latitude |-> 55753544, longitude |-> 37621202],
      [address |-> "Saint Petersburg, Nevsky 20", latitude |-> 59934280, longitude |-> 30335099],
      [address |-> "Saint Petersburg, Rubinshteina 5", latitude |-> 59928322, longitude |-> 30335930],
      [address |-> "Yekaterinburg, Vaynera 10", latitude |-> 56838607, longitude |-> 60603817],
      [address |-> "Novosibirsk, Krasny 25", latitude |-> 55030204, longitude |-> 82920430]>>

activities_level_1 ==
    <<[name |-> "Food", level |-> 1, parent_id |-> None],
      [name |-> "Cars", level |-> 1, parent_id |-> None],
      [name |-> "Education", level |-> 1, parent_id |-> None],
      [name |-> "Medicine", level |-> 1, parent_id |-> None],
      [name |-> "Services", level |-> 1, parent_id |-> None]>>

activities_level_2_data ==
    <<[name |-> "Meat products", level |-> 2, parent_name |-> "Food"],
      [name |-> "Dairy products", level |-> 2, parent_name |-> "Food"],
      [name |-> "Bakery products", level |-> 2, parent_name |-> "Food"],
      [name |-> "Confectionery", level |-> 2, parent_name |-> "Food"],
      [name |-> "Trucks", level |-> 2, parent_name |-> "Cars"],
      [name |-> "Passenger cars", level |-> 2, parent_name |-> "Cars"],
      [name |-> "Motorcycles", level |-> 2, parent_name |-> "Cars"],
      [name |-> "School education", level |-> 2, parent_name |-> "Education"],
      [name |-> "Higher education", level |-> 2, parent_name |-> "Education"],
      [name |-> "Courses and trainings", level |-> 2, parent_name |-> "Education"],
      [name |-> "Dentistry", level |-> 2, parent_name |-> "Medicine"],
      [name |-> "Therapy", level |-> 2, parent_name |-> "Medicine"],
      [name |-> "Surgery", level |-> 2, parent_name |-> "Medicine"],
      [name |-> "Cleaning", level |-> 2, parent_name |-> "Services"],
      [name |-> "Repair", level |-> 2, parent_name |-> "Services"],
      [name |-> "Consulting", level |-> 2, parent_name |-> "Services"]>>

activities_level_3_data ==
    <<[name |-> "Spare parts", level |-> 3, parent_name |-> "Passenger cars"],
      [name |-> "Accessories", level |-> 3, parent_name |-> "Passenger cars"],
      [name |-> "Tyres", level |-> 3, parent_name |-> "Passenger cars"],
      [name |-> "Plumbing", level |-> 3, parent_name |-> "Repair"],
      [name |-> "Electrics", level |-> 3, parent_name |-> "Repair"],
      [name |-> "Finishing works", level |-> 3, parent_name |-> "Repair"],
      [name |-> "Pediatric dentistry", level |-> 3, parent_name |-> "Dentistry"],
      [name |-> "Orthodontics", level |-> 3, parent_name |-> "Dentistry"],
      [name |-> "Implantation", level |-> 3, parent_name |-> "Dentistry"]>>

organizations_data ==
    <<[name |-> "Roga i Kopyta", building |-> 1,
       phones |-> <<<<"8", "-", "4", "9", "5", "-", "1", "2", "3", "-", "4", "5", "-", "6", "7">>,
                    <<"8", "-", "4", "9", "5", "-", "7", "6", "5", "-", "4", "3", "-", "2", "1">>>>,
       activity_names |-> <<"Meat products", "Dairy products">>],
      [name |-> "Ivanov I.I.", building |-> 2,
       phones |-> <<<<"8", "-", "9", "1", "6", "-", "5", "5", "5", "-", "1", "2", "-", "3", "4">>>>,
       activity_names |-> <<"Bakery products">>],
      [name |-> "AvtoZapchasti+", building |-> 3,
       phones |-> <<<<"8", "-", "4", "9", "5", "-", "7", "7", "7", "-", "8", "8", "-", "9", "9">>,
                    <<"8", "-", "4", "9", "5", "-", "1", "1", "1", "-", "2", "2", "-", "3", "3">>,
                    <<"8", "-", "8", "0", "0", "-", "5", "5", "5", "-", "3", "5", "-", "3", "5">>>>,
       activity_names |-> <<"Spare parts", "Accessories">>],
      [name |-> "Belye zubki", building |-> 4,
       phones |-> <<<<"8", "-", "8", "1", "2", "-", "9", "9", "9", "-", "8", "8", "-", "7", "7">>>>,
       activity_names |-> <<"Dentistry", "Pediatric dentistry", "Orthodontics">>],
      [name |-> "Premium Avto", building |-> 5,
       phones |-> <<<<"8", "-", "8", "1", "2", "-", "3", "3", "3", "-", "4", "4", "-", "5", "5">>,
                    <<"8", "-", "8", "1", "2", "-", "6", "6", "6", "-", "7", "7", "-", "8", "8">>>>,
       activity_names |-> <<"Passenger cars">>],
      [name |-> "Znanie", building |-> 6,
       phones |-> <<<<"8", "-", "3", "4", "3", "-", "1", "2", "3", "-", "4", "5", "-", "6", "7">>>>,
       activity_names |-> <<"Courses and trainings", "Consulting">>],
      [name |-> "Chistota", building |-> 7,
       phones |-> <<<<"8", "-", "3", "8", "3", "-", "9", "9", "9", "-", "1", "1", "-", "2", "2">>>>,
       activity_names |-> <<"Cleaning">>],
      [name |-> "StroyMaster", building |-> 1,
       phones |-> <<<<"8", "-", "4", "9", "5", "-", "4", "4", "4", "-", "5", "5", "-", "6", "6">>,
                    <<"8", "-", "4", "9", "5", "-", "7", "7", "7", "-", "8", "8", "-", "9", "9">>>>,
       activity_names |-> <<"Repair", "Plumbing", "Electrics", "Finishing works">>],
      [name |-> "Zdorovye", building |-> 2,
       phones |-> <<<<"8", "-", "9", "1", "6", "-", "2", "2", "2", "-", "3", "3", "-", "4", "4">>>>,
       activity_names |-> <<"Therapy", "Surgery">>],
      [name |-> "Sladky ray", building |-> 3,
       phones |-> <<<<"8", "-", "4", "9", "5", "-", "8", "8", "8", "-", "9", "9", "-", "0", "0">>>>,
       activity_names |-> <<"Confectionery">>]>>

\* the foreign keys of the schema, none of them ON DELETE CASCADE
ForeignKeys(d) ==
    /\ \A oa \in d.organization_activity :
          oa[1] \in DOMAIN d.organizations /\ oa[2] \in DOMAIN d.activities
    /\ \A row \in DOMAIN d.organization_phones :
          row.organization_id \in DOMAIN d.organizations
    /\ \A o \in DOMAIN d.organizations :
          d.organizations[o].building_id \in DOMAIN d.buildings
    /\ ParentFKHolds(d.activities)

\* the bulk deletes of the clean-up, in their order; a statement that
\* leaves a row referencing a deleted one raises IntegrityError.  The
\* organization_activity table is not among them.
Wipe(d) ==
    LET d1 == [d EXCEPT !.organization_phones = EmptyBag]
        d2 == [d1 EXCEPT !.organizations = EmptyFn]
        d3 == [d2 EXCEPT !.activities = EmptyFn]
        d4 == [d3 EXCEPT !.buildings = EmptyFn]
    IN IF \A dn \in {d1, d2, d3, d4} : ForeignKeys(dn)
       THEN Result("ok", "", d4, 0, EmptyFn)
       ELSE Result("IntegrityError", "", d, 0, EmptyFn)

\* rows appended to a table under the ids the sequence hands out
Inserted(table, seq, rows) ==
    [id \in DOMAIN table \cup seq..(seq + Len(rows) - 1) |->
        IF id \in DOMAIN table THEN table[id] ELSE rows[id - seq + 1]]

\* the ids of those rows, in their order
NewIds(seq, rows) == [i \in 1..Len(rows) |-> seq + i - 1]

AddBuildings(d) ==
    [d EXCEPT !.buildings = Inserted(@, d.building_seq, buildings_data),
              !.building_seq = @ + Len(buildings_data)]

\* next((a for a in parents if a.name == parent_name), None)
ParentNamed(d, parents, parent_name) ==
    LET hits == {i \in 1..Len(parents) : d.activities[parents[i]].name = parent_name}
    IN IF hits = {} THEN None
       ELSE parents[CHOOSE i \in hits : \A j \in hits : i <= j]

\* the activity rows of one level: an item whose parent is not found is
\* left out
RECURSIVE ActivityRows(_, _, _)
ActivityRows(d, data, parents) ==
    IF data = <<>> THEN <<>>
    ELSE LET parent == ParentNamed(d, parents, Head(data).parent_name)
             rest == ActivityRows(d, Tail(data), parents)
         IN IF parent = None THEN rest
            ELSE <<[name |-> Head(data).name, level |-> Head(data).level,
                    parent_id |-> parent]>> \o rest

AddActivities(d, rows) ==
    [d EXCEPT !.activities = Inserted(@, d.activity_seq, rows),
              !.activity_seq = @ + Len(rows)]

\* for each of the names, the id of the first activity of all_activities
\* that has it (after the clean-up every name of the fixture is on one row)
ActivityIdsNamed(d, activity_names) ==
    {a \in DOMAIN d.activities :
        \E i \in 1..Len(activity_names) :
            /\ d.activities[a].name = activity_names[i]
            /\ \A b \in DOMAIN d.activities :
                  d.activities[b].name = activity_names[i] => a <= b}

\* the organizations, flushed, then the phones and the associations of each
AddOrganizations(d, building_ids) ==
    LET seq == d.organization_seq
        rows == [i \in 1..Len(organizations_data) |->
                    [name |-> organizations_data[i].name,
                     building_id |-> building_ids[organizations_data[i].building]]]
        Phones[i \in 0..Len(organizations_data)] ==
            IF i = 0 THEN d.organization_phones
            ELSE Phones[i - 1] (+) PhoneRows(seq + i - 1, organizations_data[i].phones)
    IN [d EXCEPT !.organizations = Inserted(@, seq, rows),
                 !.organization_seq = @ + Len(rows),
                 !.organization_phones = Phones[Len(organizations_data)],
                 !.organization_activity = @ \cup UNION
                    {{<<seq + i - 1, a>> :
                         a \in ActivityIdsNamed(d, organizations_data[i].activity_names)} :
                       i \in 1..Len(organizations_data)}]

----------------------------------------------------------------------------
(* Session scope *)

\* mutant: the session is committed when it is closed
get_async_db_commits(res) ==
    [res.db EXCEPT !.activities = Flush(res.db.activities, res.pending)]

\* get_async_db: the session is closed when the request ends; what the
\* method committed stays, what was still pending is discarded
get_async_db(res) == res.db


\* mutant: the session is closed only after the route returned
session_close_after_return(outcome) ==
    IF outcome.kind = "return" THEN "closed" ELSE "open"

\* the finally of get_async_db: whatever came back through the yield, the
\* session is closed
session_close(outcome) == "closed"

----------------------------------------------------------------------------
(* Requests on activities *)

\* parent_id of a request: absent, 0, an id the sequence has handed out,
\* or the next one, which no row has
ParentInputs == {None} \cup 0..activity_seq

\* the row orders that differ: with fewer than two children there is one
RowOrders(activity_id) ==
    IF Cardinality({c \in DOMAIN activities :
                       activities[c].parent_id = activity_id}) >= 2
    THEN BOOLEAN ELSE {TRUE}

CreateActivity(maxIds, names) ==
    /\ activity_seq <= maxIds
    /\ \E name \in names, parent_id \in ParentInputs :
         Becomes(get_async_db(create_activity(db, name, parent_id)))

UpdateActivity ==
    \E activity_id \in 1..activity_seq, name \in ActivityNames,
       parent_id \in ParentInputs :
      \E asc \in RowOrders(activity_id) :
         Becomes(get_async_db(update_activity(db, activity_id, name, parent_id, asc)))

DeleteActivity ==
    \E activity_id \in 1..activity_seq :
         Becomes(get_async_db(delete_activity(db, activity_id)))

----------------------------------------------------------------------------
(* Requests on buildings and organizations *)

CreateBuilding(maxIds, addresses, latitudes, longitudes) ==
    /\ building_seq <= maxIds
    /\ \E address \in addresses, latitude \in latitudes, longitude \in longitudes :
         Becomes(get_async_db(create_building(db, address, latitude, longitude)))

UpdateBuilding(addresses, latitudes, longitudes) ==
    \E building_id \in 1..building_seq, address \in addresses,
       latitude \in latitudes, longitude \in longitudes :
         Becomes(get_async_db(update_building(db, building_id, address,
                                              latitude, longitude)))

DeleteBuilding ==
    \E building_id \in 1..building_seq :
         Becomes(get_async_db(delete_building(db, building_id)))

CreateOrganization(maxIds, names, phoneLists, idLists) ==
    /\ organization_seq <= maxIds
    /\ \E name \in names, building_id \in 0..building_seq,
          phone_numbers \in phoneLists, activity_ids \in idLists :
         Becomes(get_async_db(create_organization(db, name, building_id,
                                                  phone_numbers, activity_ids)))

UpdateOrganization(phoneOptions, idOptions) ==
    \E org_id \in 1..organization_seq, name \in OrganizationNames \cup {""},
       building_id \in {None} \cup 0..building_seq,
       phone_numbers \in phoneOptions, activity_ids \in idOptions :
         Becomes(get_async_db(update_organization(db, org_id, name, building_id,
                                                  phone_numbers, activity_ids)))

DeleteOrganization ==
    \E org_id \in 1..organization_seq :
         Becomes(get_async_db(delete_organization(db, org_id)))

----------------------------------------------------------------------------
(* A request step by step: its dependencies, its route, its response *)

ApiKeys == {NoHeader, Header(""), Header("wrong-key"), Header(settings_api_key)}

NoResponse == [status_code |-> 0, detail |-> ""]
NoOutcome == [kind |-> "", status_code |-> 0, detail |-> ""]

\* a request arrives and its first dependency, get_async_db, opens a
\* session of its own
Receive(maxRequests) ==
    /\ Len(requests) < maxRequests
    /\ \E route \in Routes, api_key \in ApiKeys :
         /\ Dependencies(route)[1] = "get_async_db"
         /\ requests' = Append(requests,
                [route |-> route, api_key |-> api_key, pc |-> "verify_api_key",
                 session |-> Len(sessions) + 1, invoked |-> FALSE,
                 outcome |-> NoOutcome, response |-> NoResponse])
         /\ sessions' = Append(sessions, "open")
    /\ Commits(db)
    /\ UNCHANGED <<seeding, tasks>>

\* its second dependency: the route runs only if the key is returned.
\* The record of a request names its route for as long as the route is
\* still to run.
VerifyApiKey ==
    \E r \in DOMAIN requests :
        /\ requests[r].pc = "verify_api_key"
        /\ Dependencies(requests[r].route)[2] = "verify_api_key"
        /\ LET verdict == verify_api_key(requests[r].api_key)
           IN requests' = [requests EXCEPT ![r] =
                 IF verdict = "ok" THEN [@ EXCEPT !.pc = "route"]
                 ELSE [@ EXCEPT !.pc = "close", !.route = "",
                                !.outcome = Unauthorized(verdict)]]
        /\ UNCHANGED <<sessions, seeding, tasks>>
        /\ Commits(db)

\* the body of the route: its service call and what it makes of the result
CallRoute ==
    \E r \in DOMAIN requests, arg \in {0, 1} :
        /\ requests[r].pc = "route"
        /\ LET res == Handler(db, requests[r].route, arg)
           IN /\ requests' = [requests EXCEPT ![r] =
                    [@ EXCEPT !.pc = "close", !.route = "", !.invoked = TRUE,
                              !.outcome = RouteOutcome(requests[r].route, res)]]
              /\ Commits(get_async_db(res))
        /\ UNCHANGED <<sessions, seeding, tasks>>

\* the outcome comes back through the yield of get_async_db, and the
\* response is sent
Respond ==
    \E r \in DOMAIN requests :
        /\ requests[r].pc = "close"
        /\ sessions' = [sessions EXCEPT ![requests[r].session] =
                            session_close(requests[r].outcome)]
        /\ requests' = [requests EXCEPT ![r] =
              [@ EXCEPT !.pc = "done",
                        !.response = ExceptionHandlers(requests[r].outcome)]]
        /\ Commits(db)
        /\ UNCHANGED <<seeding, tasks>>

----------------------------------------------------------------------------
(* The seeding utility, commit by commit *)

NotSeeding ==
    [pc |-> "idle", run |-> 0, first |-> <<0, 0, 0>>, on_populated |-> FALSE,
     buildings |-> <<>>, level_1_activities |-> <<>>,
     level_2_activities |-> <<>>, error |-> ""]

\* a store as a run of the utility leaves it: the fixture and nothing else,
\* whatever the ids
Contents(d) ==
    [buildings |-> {d.buildings[b] : b \in DOMAIN d.buildings},
     building_count |-> Cardinality(DOMAIN d.buildings),
     activities |-> {[name |-> d.activities[a].name, level |-> d.activities[a].level,
                      parent |-> IF d.activities[a].parent_id \in DOMAIN d.activities
                                 THEN d.activities[d.activities[a].parent_id].name
                                 ELSE ""] : a \in DOMAIN d.activities},
     activity_count |-> Cardinality(DOMAIN d.activities),
     organizations |->
        {[name |-> d.organizations[o].name,
          address |-> IF d.organizations[o].building_id \in DOMAIN d.buildings
                      THEN d.buildings[d.organizations[o].building_id].address
                      ELSE "",
          phones |-> [row \in {r \in DOMAIN d.organization_phones :
                                  r.organization_id = o} |->
                         d.organization_phones[row]],
          activities |-> {d.activities[oa[2]].name :
                             oa \in {x \in d.organization_activity :
                                        x[1] = o /\ x[2] \in DOMAIN d.activities}}] :
           o \in DOMAIN d.organizations},
     organization_count |-> Cardinality(DOMAIN d.organizations),
     phone_count |-> BagCardinality(d.organization_phones),
     association_count |-> Cardinality(d.organization_activity)]

\* a single run on an empty store
Seeded ==
    LET empty == [activities |-> EmptyFn, activity_seq |-> 1,
                  buildings |-> EmptyFn, building_seq |-> 1,
                  organizations |-> EmptyFn, organization_seq |-> 1,
                  organization_phones |-> EmptyBag, organization_activity |-> {}]
        d1 == AddBuildings(empty)
        d2 == AddActivities(d1, activities_level_1)
        d3 == AddActivities(d2, ActivityRows(d2, activities_level_2_data,
                                             NewIds(1, activities_level_1)))
        d4 == AddActivities(d3, ActivityRows(d3, activities_level_3_data,
                   NewIds(d3.activity_seq - Len(activities_level_2_data),
                          activities_level_2_data)))
    IN AddOrganizations(d4, NewIds(1, buildings_data))

\* the except branch: what was not committed is rolled back, the error is
\* raised again
SeedFails(error) ==
    /\ seeding' = [seeding EXCEPT !.pc = "failed", !.error = error]
    /\ Commits(db)

\* a stage of the utility up to its commit; the connection can be lost
\* before it
SeedStage(pc, res, next) ==
    /\ seeding.pc = pc
    /\ \/ SeedFails("ConnectionError")
       \/ /\ res.outcome # "ok"
          /\ SeedFails(res.outcome)
       \/ /\ res.outcome = "ok"
          /\ seeding' = next
          /\ Commits(res.db)
    /\ UNCHANGED <<requests, sessions, tasks>>

\* create_test_data is run
SeedStart(maxRuns) ==
    /\ seeding.pc \in {"idle", "done", "failed"}
    /\ seeding.run < maxRuns
    /\ seeding' = [NotSeeding EXCEPT !.pc = "wipe", !.run = seeding.run + 1,
                      !.first = <<building_seq, activity_seq, organization_seq>>,
                      !.on_populated = (Contents(db) = Contents(Seeded))]
    /\ Commits(db)
    /\ UNCHANGED <<requests, sessions, tasks>>

SeedWipe ==
    SeedStage("wipe", Wipe(db), [seeding EXCEPT !.pc = "buildings"])

SeedBuildings ==
    SeedStage("buildings", Result("ok", "", AddBuildings(db), 0, EmptyFn),
              [seeding EXCEPT !.pc = "level_1",
                              !.buildings = NewIds(building_seq, buildings_data)])

SeedLevel1 ==
    SeedStage("level_1",
              Result("ok", "", AddActivities(db, activities_level_1), 0, EmptyFn),
              [seeding EXCEPT !.pc = "level_2",
                  !.level_1_activities = NewIds(activity_seq, activities_level_1)])

SeedLevel2 ==
    LET rows == ActivityRows(db, activities_level_2_data, seeding.level_1_activities)
    IN SeedStage("level_2", Result("ok", "", AddActivities(db, rows), 0, EmptyFn),
                 [seeding EXCEPT !.pc = "level_3",
                     !.level_2_activities = NewIds(activity_seq, rows)])

SeedLevel3 ==
    LET rows == ActivityRows(db, activities_level_3_data, seeding.level_2_activities)
    IN SeedStage("level_3", Result("ok", "", AddActivities(db, rows), 0, EmptyFn),
                 [seeding EXCEPT !.pc = "organizations"])

SeedOrganizations ==
    SeedStage("organizations",
              Result("ok", "", AddOrganizations(db, seeding.buildings), 0, EmptyFn),
              [seeding EXCEPT !.pc = "done"])

----------------------------------------------------------------------------
(* Service calls round trip by round trip.  Each call has a session of its *)
(* own; a read sees the rows committed when it runs.                      *)

\* no row loaded
NoRow == [name |-> "", parent_id |-> None, level |-> 0]

\* a call has ended, and its locals with it
Ends(t, outcome, err) ==
    tasks' = [tasks EXCEPT ![t] =
                 [@ EXCEPT !.pc = "done", !.outcome = outcome, !.err = err,
                           !.loaded = NoRow, !.current_id = None, !.level = 1]]

\* a call goes on to its next round trip
Goes(t, pc) == tasks' = [tasks EXCEPT ![t] = [@ EXCEPT !.pc = pc]]

ActivityTask(op, activity_id, name, parent_id, pc) ==
    [op |-> op, activity_id |-> activity_id, name |-> name,
     parent_id |-> parent_id, pc |-> pc, loaded |-> NoRow, current_id |-> None,
     level |-> 1, outcome |-> "", err |-> ""]

\* mutant: a unique index on (name, parent_id) refuses the second row
InsertActivity_unique(d, row) ==
    LET seq == d.activity_seq
        acts == d.activities
        inserted == [a \in DOMAIN acts \cup {seq} |-> IF a = seq THEN row ELSE acts[a]]
    IN IF ~ParentFKHolds(inserted)
          \/ SiblingsNamed(acts, row.name, row.parent_id, 0) # {}
       THEN Result("IntegrityError", "constraint",
                   [d EXCEPT !.activity_seq = seq + 1], 0, EmptyFn)
       ELSE Result("ok", "", [d EXCEPT !.activities = inserted,
                                       !.activity_seq = seq + 1], seq, EmptyFn)

\* db.add(activity), commit: the INSERT; the one constraint of the table
\* is the foreign key of parent_id
InsertActivity(d, row) ==
    LET seq == d.activity_seq
        acts == d.activities
        inserted == [a \in DOMAIN acts \cup {seq} |-> IF a = seq THEN row ELSE acts[a]]
    IN IF ~ParentFKHolds(inserted)
       THEN Result("IntegrityError", "foreign_key",
                   [d EXCEPT !.activity_seq = seq + 1], 0, EmptyFn)
       ELSE Result("ok", "", [d EXCEPT !.activities = inserted,
                                       !.activity_seq = seq + 1], seq, EmptyFn)

\* create_activity is called; without a parent_id its level is 1 and its
\* first round trip is the uniqueness query
CreateActivityCalled(maxTasks, names) ==
    /\ Len(tasks) < maxTasks
    /\ \E name \in names, parent_id \in ParentInputs :
          tasks' = Append(tasks,
              ActivityTask("create_activity", 0, name, parent_id,
                           IF Truthy(parent_id) THEN "parent" ELSE "existing"))
    /\ Commits(db)
    /\ UNCHANGED <<requests, sessions, seeding>>

\* the parent query
CreateActivityParent ==
    \E t \in DOMAIN tasks :
        /\ tasks[t].op = "create_activity" /\ tasks[t].pc = "parent"
        /\ LET parent_id == tasks[t].parent_id
           IN IF parent_id \notin DOMAIN activities
                 THEN Ends(t, "ValueError", "parent_not_found")
              ELSE IF activities[parent_id].level >= 3
                 THEN Ends(t, "ValueError", "max_depth")
              ELSE tasks' = [tasks EXCEPT ![t] =
                      [@ EXCEPT !.pc = "existing",
                                !.level = activities[parent_id].level + 1]]
        /\ Commits(db)
        /\ UNCHANGED <<requests, sessions, seeding>>

\* the uniqueness query
CreateActivityExisting ==
    \E t \in DOMAIN tasks :
        /\ tasks[t].op = "create_activity" /\ tasks[t].pc = "existing"
        /\ LET existing == SiblingsNamed(activities, tasks[t].name,
                                         tasks[t].parent_id, 0)
           IN IF Cardinality(existing) > 1
                 THEN Ends(t, "MultipleResultsFound", "multiple_rows")
              ELSE IF existing # {}
                 THEN Ends(t, "ValueError", "duplicate_name")
              ELSE Goes(t, "commit")
        /\ Commits(db)
        /\ UNCHANGED <<requests, sessions, seeding>>

\* the insert and its commit
CreateActivityCommit ==
    \E t \in DOMAIN tasks :
        /\ tasks[t].op = "create_activity" /\ tasks[t].pc = "commit"
        /\ LET res == InsertActivity(db, [name |-> tasks[t].name,
                                          parent_id |-> tasks[t].parent_id,
                                          level |-> tasks[t].level])
           IN /\ tasks' = [tasks EXCEPT ![t] =
                    [@ EXCEPT !.pc = "done", !.outcome = res.outcome,
                              !.err = res.err, !.activity_id = res.id]]
              /\ Commits(res.db)
        /\ UNCHANGED <<requests, sessions, seeding>>

\* the end of update_activity: the attributes are assigned, the levels of
\* the subtree are rewritten, and the commit flushes the attributes that
\* differ from the loaded ones
UpdateCommitted(d, task, asc) ==
    LET acts == d.activities
        id == task.activity_id
        object == [name |-> task.name, parent_id |-> task.parent_id,
                   level |-> task.level]
        st == _update_children_levels(acts, [pending |-> (id :> object),
                                             raised |-> FALSE], id, asc)
        written == [name |-> IF object.name # task.loaded.name
                             THEN object.name ELSE acts[id].name,
                    parent_id |-> IF object.parent_id # task.loaded.parent_id
                                  THEN object.parent_id ELSE acts[id].parent_id,
                    level |-> IF st.pending[id].level # task.loaded.level
                              THEN st.pending[id].level ELSE acts[id].level]
        flushed == Flush(acts, [st.pending EXCEPT ![id] = written])
    IN IF st.raised
          THEN Result("ValueError", "subtree_depth", d, 0, EmptyFn)
       ELSE IF ~ParentFKHolds(flushed)
          THEN Result("IntegrityError", "foreign_key", d, 0, EmptyFn)
       ELSE Result("ok", "", [d EXCEPT !.activities = flushed], id, EmptyFn)

\* mutant: the store refuses a parent_id that closes a cycle
UpdateCommits_refuses_cycle(d, task, asc) ==
    IF _would_create_cycle(d.activities, task.activity_id, task.parent_id) = "cycle"
    THEN Result("ValueError", "cycle", d, 0, EmptyFn)
    ELSE UpdateCommitted(d, task, asc)

\* the commit of update_activity: nothing is checked again
UpdateCommits(d, task, asc) == UpdateCommitted(d, task, asc)

\* update_activity is called for a stored activity, under its name, to
\* put it under another stored activity
UpdateActivityCalled(maxTasks) ==
    /\ Len(tasks) < maxTasks
    /\ \E activity_id \in DOMAIN activities, parent_id \in DOMAIN activities :
          /\ parent_id # activity_id
          /\ tasks' = Append(tasks,
              ActivityTask("update_activity", activity_id,
                           activities[activity_id].name, parent_id, "load"))
    /\ Commits(db)
    /\ UNCHANGED <<requests, sessions, seeding>>

\* where the walk of _would_create_cycle stands with current_id: the while
\* test and the comparison that follow a query
CycleStep(task, current_id) ==
    IF ~Truthy(current_id) THEN [task EXCEPT !.pc = "parent", !.current_id = None]
    ELSE IF current_id = task.activity_id
       THEN [task EXCEPT !.pc = "done", !.outcome = "ValueError", !.err = "cycle",
                         !.loaded = NoRow, !.current_id = None, !.level = 1]
    ELSE [task EXCEPT !.pc = "cycle", !.current_id = current_id]

\* the query for the activity
UpdateActivityLoad ==
    \E t \in DOMAIN tasks :
        /\ tasks[t].op = "update_activity" /\ tasks[t].pc = "load"
        /\ LET id == tasks[t].activity_id
           IN IF id \notin DOMAIN activities THEN Ends(t, "absent", "")
              ELSE IF Truthy(tasks[t].parent_id)
                 THEN tasks' = [tasks EXCEPT ![t] =
                         CycleStep([@ EXCEPT !.loaded = activities[id]],
                                   tasks[t].parent_id)]
              ELSE tasks' = [tasks EXCEPT ![t] =
                      [@ EXCEPT !.loaded = activities[id], !.level = 1,
                                !.pc = "existing"]]
        /\ Commits(db)
        /\ UNCHANGED <<requests, sessions, seeding>>

\* one query of the walk of _would_create_cycle
UpdateActivityCycle ==
    \E t \in DOMAIN tasks :
        /\ tasks[t].op = "update_activity" /\ tasks[t].pc = "cycle"
        /\ LET current_id == tasks[t].current_id
               parent == IF current_id \in DOMAIN activities
                         THEN activities[current_id].parent_id ELSE None
           IN tasks' = [tasks EXCEPT ![t] =
                 CycleStep(@, IF Truthy(parent) THEN parent ELSE None)]
        /\ Commits(db)
        /\ UNCHANGED <<requests, sessions, seeding>>

\* the parent query
UpdateActivityParent ==
    \E t \in DOMAIN tasks :
        /\ tasks[t].op = "update_activity" /\ tasks[t].pc = "parent"
        /\ LET parent_id == tasks[t].parent_id
           IN IF parent_id \notin DOMAIN activities
                 THEN Ends(t, "ValueError", "parent_not_found")
              ELSE IF activities[parent_id].level >= 3
                 THEN Ends(t, "ValueError", "max_depth")
              ELSE tasks' = [tasks EXCEPT ![t] =
                      [@ EXCEPT !.pc = "existing",
                                !.level = activities[parent_id].level + 1]]
        /\ Commits(db)
        /\ UNCHANGED <<requests, sessions, seeding>>

\* the uniqueness query
UpdateActivityExisting ==
    \E t \in DOMAIN tasks :
        /\ tasks[t].op = "update_activity" /\ tasks[t].pc = "existing"
        /\ LET existing == SiblingsNamed(activities, tasks[t].name,
                                         tasks[t].parent_id, tasks[t].activity_id)
           IN IF Cardinality(existing) > 1
                 THEN Ends(t, "MultipleResultsFound", "multiple_rows")
              ELSE IF existing # {}
                 THEN Ends(t, "ValueError", "duplicate_name")
              ELSE Goes(t, "commit")
        /\ Commits(db)
        /\ UNCHANGED <<requests, sessions, seeding>>

\* the assignments, the levels of the subtree and the commit
UpdateActivityCommit ==
    \E t \in DOMAIN tasks :
        /\ tasks[t].op = "update_activity" /\ tasks[t].pc = "commit"
        /\ tasks[t].activity_id \in DOMAIN activities
        /\ \E asc \in RowOrders(tasks[t].activity_id) :
             LET res == UpdateCommits(db, tasks[t], asc)
             IN /\ Ends(t, res.outcome, res.err)
                /\ Commits(res.db)
        /\ UNCHANGED <<requests, sessions, seeding>>

OrganizationTask(op, org_id, name, building_id, activity_ids, pc) ==
    [op |-> op, org_id |-> org_id, name |-> name, building_id |-> building_id,
     activity_ids |-> activity_ids, pc |-> pc, outcome |-> "", err |-> ""]

\* the row as the INSERT writes it, with its id drawn from the sequence
InsertOrganization_unchecked(d, name, building_id) ==
    LET seq == d.organization_seq
    IN Result("ok", "",
              [d EXCEPT !.organizations =
                           [o \in DOMAIN d.organizations \cup {seq} |->
                               IF o = seq THEN [name |-> name, building_id |-> building_id]
                               ELSE d.organizations[o]],
                        !.organization_seq = seq + 1],
              seq, EmptyFn)

\* db.add(organization), commit: the INSERT, which the foreign key of
\* building_id refuses when the building is gone
InsertOrganization(d, name, building_id) ==
    IF building_id \notin DOMAIN d.buildings
    THEN Result("IntegrityError", "foreign_key",
                [d EXCEPT !.organization_seq = @ + 1], 0, EmptyFn)
    ELSE InsertOrganization_unchecked(d, name, building_id)

\* mutant: the organization inserted by the call is taken back when the
\* call is refused
ActivitiesRejected_restores(d, org_id) ==
    [d EXCEPT !.organizations = [o \in DOMAIN @ \ {org_id} |-> @[o]]]

\* raise ValueError after the first commit: the session has nothing to
\* roll back
ActivitiesRejected(d, org_id) == d

\* create_organization is called, without phone numbers
CreateOrganizationCalled(maxTasks, idLists) ==
    /\ Len(tasks) < maxTasks
    /\ \E building_id \in 1..building_seq, activity_ids \in idLists :
          tasks' = Append(tasks,
              OrganizationTask("create_organization", 0, "Cafe", building_id,
                               activity_ids, "building"))
    /\ Commits(db)
    /\ UNCHANGED <<requests, sessions, seeding>>

\* the building query
CreateOrganizationBuilding ==
    \E t \in DOMAIN tasks :
        /\ tasks[t].op = "create_organization" /\ tasks[t].pc = "building"
        /\ IF BuildingFound(db, tasks[t].building_id)
           THEN tasks' = [tasks EXCEPT ![t] = [@ EXCEPT !.pc = "insert"]]
           ELSE tasks' = [tasks EXCEPT ![t] =
                   [@ EXCEPT !.pc = "done", !.outcome = "ValueError",
                             !.err = "building_not_found"]]
        /\ Commits(db)
        /\ UNCHANGED <<requests, sessions, seeding>>

\* the insert of the organization and the first commit
CreateOrganizationInsert ==
    \E t \in DOMAIN tasks :
        /\ tasks[t].op = "create_organization" /\ tasks[t].pc = "insert"
        /\ LET res == InsertOrganization(db, tasks[t].name, tasks[t].building_id)
           IN /\ tasks' = [tasks EXCEPT ![t] =
                    IF res.outcome # "ok"
                    THEN [@ EXCEPT !.pc = "done", !.outcome = res.outcome,
                                   !.err = res.err]
                    ELSE [@ EXCEPT !.org_id = res.id,
                                   !.pc = IF tasks[t].activity_ids # <<>>
                                          THEN "activities" ELSE "commit"]]
              /\ Commits(res.db)
        /\ UNCHANGED <<requests, sessions, seeding>>

\* the activities query and the comparison of the lengths
CreateOrganizationActivities ==
    \E t \in DOMAIN tasks :
        /\ tasks[t].op = "create_organization" /\ tasks[t].pc = "activities"
        /\ IF ActivitiesResolved(db, tasks[t].activity_ids)
           THEN /\ tasks' = [tasks EXCEPT ![t] = [@ EXCEPT !.pc = "commit"]]
                /\ Commits(db)
           ELSE /\ tasks' = [tasks EXCEPT ![t] =
                       [@ EXCEPT !.pc = "done", !.outcome = "ValueError",
                                 !.err = "activities_not_found"]]
                /\ Commits(ActivitiesRejected(db, tasks[t].org_id))
        /\ UNCHANGED <<requests, sessions, seeding>>

\* the association rows and the second commit
CreateOrganizationCommit ==
    \E t \in DOMAIN tasks :
        /\ tasks[t].op = "create_organization" /\ tasks[t].pc = "commit"
        /\ LET found == {a \in DOMAIN activities : a \in Elements(tasks[t].activity_ids)}
           IN Commits([db EXCEPT !.organization_activity =
                          @ \cup {<<tasks[t].org_id, a>> : a \in found}])
        /\ tasks' = [tasks EXCEPT ![t] = [@ EXCEPT !.pc = "done", !.outcome = "ok"]]
        /\ UNCHANGED <<requests, sessions, seeding>>

\* db.delete(building), commit: the DELETE, which the foreign key of
\* organizations.building_id refuses while a row refers to the building;
\* a DELETE that finds its row gone only warns
DeleteBuildingRow(d, building_id) ==
    IF OrganizationsIn(d, building_id) # {}
    THEN Result("IntegrityError", "foreign_key", d, 0, EmptyFn)
    ELSE Result("ok", "",
                [d EXCEPT !.buildings = [b \in DOMAIN @ \ {building_id} |-> @[b]]],
                building_id, EmptyFn)

\* delete_building is called
DeleteBuildingCalled(maxTasks) ==
    /\ Len(tasks) < maxTasks
    /\ \E building_id \in 1..building_seq :
          tasks' = Append(tasks,
              OrganizationTask("delete_building", 0, "", building_id, <<>>, "load"))
    /\ Commits(db)
    /\ UNCHANGED <<requests, sessions, seeding>>

\* the building is loaded
DeleteBuildingLoad ==
    \E t \in DOMAIN tasks :
        /\ tasks[t].op = "delete_building" /\ tasks[t].pc = "load"
        /\ IF BuildingFound(db, tasks[t].building_id)
           THEN tasks' = [tasks EXCEPT ![t] = [@ EXCEPT !.pc = "count"]]
           ELSE tasks' = [tasks EXCEPT ![t] = [@ EXCEPT !.pc = "done", !.outcome = "absent"]]
        /\ Commits(db)
        /\ UNCHANGED <<requests, sessions, seeding>>

\* the count of the organizations in the building
DeleteBuildingCount ==
    \E t \in DOMAIN tasks :
        /\ tasks[t].op = "delete_building" /\ tasks[t].pc = "count"
        /\ IF Cardinality(OrganizationsIn(db, tasks[t].building_id)) > 0
           THEN tasks' = [tasks EXCEPT ![t] =
                   [@ EXCEPT !.pc = "done", !.outcome = "ValueError",
                             !.err = "has_organizations"]]
           ELSE tasks' = [tasks EXCEPT ![t] = [@ EXCEPT !.pc = "delete"]]
        /\ Commits(db)
        /\ UNCHANGED <<requests, sessions, seeding>>

\* the delete and the commit
DeleteBuildingCommit ==
    \E t \in DOMAIN tasks :
        /\ tasks[t].op = "delete_building" /\ tasks[t].pc = "delete"
        /\ LET res == DeleteBuildingRow(db, tasks[t].building_id)
           IN /\ tasks' = [tasks EXCEPT ![t] =
                    [@ EXCEPT !.pc = "done", !.outcome = res.outcome, !.err = res.err]]
              /\ Commits(res.db)
        /\ UNCHANGED <<requests, sessions, seeding>>

----------------------------------------------------------------------------
Init ==
    /\ activities = EmptyFn
    /\ activity_seq = 1
    /\ buildings = EmptyFn
    /\ building_seq = 1
    /\ organizations = EmptyFn
    /\ organization_seq = 1
    /\ organization_phones = EmptyBag
    /\ organization_activity = {}
    /\ requests = <<>>
    /\ sessions = <<>>
    /\ seeding = NotSeeding
    /\ tasks = <<>>

\* the activity service alone, on a store without organizations
NextTree ==
    \/ CreateActivity(MaxTreeActivities, ActivityNames)
    \/ UpdateActivity
    \/ DeleteActivity

SpecTree == Init /\ [][NextTree]_vars

\* buildings and the organizations in them: no activities, requests
\* without phone numbers
NextBuildings ==
    \/ CreateBuilding(MaxBuildings, Addresses, Latitudes, Longitudes)
    \/ UpdateBuilding(Addresses, Latitudes, Longitudes)
    \/ DeleteBuilding
    \/ CreateOrganization(MaxTenants, OrganizationNames, {<<>>}, {<<>>, <<1>>})
    \/ UpdateOrganization({Absent}, {Absent, Given(<<>>)})
    \/ DeleteOrganization

SpecBuildings == Init /\ [][NextBuildings]_vars

\* organizations with their phones and activities
NextCatalog ==
    \/ CreateBuilding(MaxSites, {"Lenina 1"}, Latitudes, Longitudes)
    \/ CreateActivity(MaxActivities, {"Food"})
    \/ DeleteActivity
    \/ CreateOrganization(MaxOrganizations, OrganizationNames,
                          {<<>>, <<Plus7, Eight8>>}, IdLists(1..activity_seq))
    \/ DeleteOrganization

SpecCatalog == Init /\ [][NextCatalog]_vars

\* organizations tagged with activities of a tree up to three levels deep
NextActivityFilter ==
    \/ CreateBuilding(MaxSites, Addresses, {0}, {0})
    \/ CreateActivity(MaxKinds, {"Food"})
    \/ DeleteActivity
    \/ CreateOrganization(MaxFirms, OrganizationNames, {<<>>}, IdLists(DOMAIN activities))
    \/ UpdateOrganization({Absent}, {Given(ids) : ids \in IdLists(DOMAIN activities)})
    \/ DeleteOrganization

SpecActivityFilter == Init /\ [][NextActivityFilter]_vars

\* buildings created and moved, with coordinates around the ends of the
\* ranges
NextCoordinates ==
    \/ CreateBuilding(MaxPlaces, {"Lenina 1"}, EdgeLatitudes, EdgeLongitudes)
    \/ UpdateBuilding({"Lenina 1"}, EdgeLatitudes, EdgeLongitudes)

SpecCoordinates == Init /\ [][NextCoordinates]_vars

\* organizations in buildings along the equator
NextGeo ==
    \/ CreateBuilding(MaxGeoSites, {"Lenina 1"}, {0}, GeoLongitudes)
    \/ CreateOrganization(MaxGeoFirms, OrganizationNames, {<<>>}, {<<>>})
    \/ DeleteOrganization

SpecGeo == Init /\ [][NextGeo]_vars

\* the organizations that GET /organizations/ lists
NextListing ==
    \/ CreateBuilding(MaxSites, {"Lenina 1"}, {0}, {0})
    \/ CreateActivity(MaxTags, {"Food"})
    \/ CreateOrganization(MaxListed, {"Cafe", "Bakery"}, {<<>>}, {<<>>, <<1>>})
    \/ DeleteOrganization

SpecListing == Init /\ [][NextListing]_vars

\* runs of the seeding utility, one after the other
NextSeed ==
    \/ SeedStart(MaxSeedRuns)
    \/ SeedWipe
    \/ SeedBuildings
    \/ SeedLevel1
    \/ SeedLevel2
    \/ SeedLevel3
    \/ SeedOrganizations

SpecSeed == Init /\ [][NextSeed]_vars

\* create_activity calls whose round trips interleave
NextCreateRace ==
    \/ CreateActivityCalled(MaxCreators, {"Food"})
    \/ CreateActivityParent
    \/ CreateActivityExisting
    \/ CreateActivityCommit

SpecCreateRace == Init /\ [][NextCreateRace]_vars

\* update_activity calls whose round trips interleave, on activities that
\* requests served one at a time have created
NextReparentRace ==
    \/ CreateActivity(MaxRaceActivities, ActivityNames)
    \/ UpdateActivityCalled(MaxReparents)
    \/ UpdateActivityLoad
    \/ UpdateActivityCycle
    \/ UpdateActivityParent
    \/ UpdateActivityExisting
    \/ UpdateActivityCommit

SpecReparentRace == Init /\ [][NextReparentRace]_vars

\* create_organization calls round trip by round trip, on buildings and
\* activities that requests served one at a time have created
NextOrganizationCalls ==
    \/ CreateBuilding(MaxCallSites, {"Lenina 1"}, {0}, {0})
    \/ CreateActivity(MaxCallActivities, {"Food"})
    \/ CreateOrganizationCalled(MaxOrganizationCalls, {<<>>, <<1>>, <<1, 2>>})
    \/ CreateOrganizationBuilding
    \/ CreateOrganizationInsert
    \/ CreateOrganizationActivities
    \/ CreateOrganizationCommit

SpecOrganizationCalls == Init /\ [][NextOrganizationCalls]_vars

\* create_organization and delete_building calls that overlap, round
\* trip by round trip
NextBuildingRace ==
    \/ CreateBuilding(MaxRaceSites, {"Lenina 1"}, {0}, {0})
    \/ CreateOrganizationCalled(MaxBuildingRaceCalls, {<<>>})
    \/ CreateOrganizationBuilding
    \/ CreateOrganizationInsert
    \/ CreateOrganizationCommit
    \/ DeleteBuildingCalled(MaxBuildingRaceCalls)
    \/ DeleteBuildingLoad
    \/ DeleteBuildingCount
    \/ DeleteBuildingCommit

SpecBuildingRace == Init /\ [][NextBuildingRace]_vars

\* requests that overlap: each step of each request is a step of its own
NextRequests ==
    \/ Receive(MaxRequests)
    \/ VerifyApiKey
    \/ CallRoute
    \/ Respond

SpecRequests == Init /\ [][NextRequests]_vars

----------------------------------------------------------------------------
(* Relations the claims are stated with *)

\* S and every activity below an activity of S
RECURSIVE Subtree(_, _)
Subtree(acts, S) ==
    LET next == S \cup {c \in DOMAIN acts : acts[c].parent_id \in S}
    IN IF next = S THEN S ELSE Subtree(acts, next)

\* following parent references from id ends at a parentless activity
\* without meeting an activity of seen again
RECURSIVE ReachesRoot(_, _, _)
ReachesRoot(acts, id, seen) ==
    LET p == acts[id].parent_id
    IN IF p = None THEN TRUE
       ELSE IF p \in seen \/ p \notin DOMAIN acts THEN FALSE
       ELSE ReachesRoot(acts, p, seen \cup {p})

SamePair(acts, a, name, parent_id) ==
    acts[a].name = name /\ acts[a].parent_id = parent_id

----------------------------------------------------------------------------
(* C1 *)

\* C1: every stored activity has level 1 when it has no parent and
\* level = parent.level + 1 otherwise, and none has a level above 3
C1_ActivityDepth ==
    \A a \in DOMAIN activities :
        /\ activities[a].level <= 3
        /\ IF activities[a].parent_id = None
           THEN activities[a].level = 1
           ELSE /\ activities[a].parent_id \in DOMAIN activities
                /\ activities[a].level = activities[activities[a].parent_id].level + 1

\* an activity a was moved under a later created activity p after its
\* child c existed, and the child sits at level 3
C1_Witness ==
    \E a \in DOMAIN activities, c \in DOMAIN activities :
        /\ activities[c].parent_id = a
        /\ activities[a].parent_id > a
        /\ activities[a].parent_id > c
        /\ activities[c].level = 3

----------------------------------------------------------------------------
(* C2 *)

\* C2: update_activity(A, parent_id = P) raises the cycle error for P = A
\* and for every descendant P of A, with no attribute of any object
\* modified and the store as it was; and from every activity the parent
\* references lead to a parentless root without meeting an activity twice
C2_NoCycles ==
    /\ \A a \in DOMAIN activities : ReachesRoot(activities, a, {a})
    /\ \A a \in DOMAIN activities :
         \A p \in Subtree(activities, {a}), name \in ActivityNames :
           \A asc \in RowOrders(a) :
            LET res == update_activity(db, a, name, p, asc)
            IN /\ res.outcome = "ValueError"
               /\ res.err = "cycle"
               /\ res.pending = EmptyFn
               /\ get_async_db(res) = db

\* an activity with a grandchild, whose re-parenting under the grandchild
\* is refused as a cycle
C2_Witness ==
    \E a \in DOMAIN activities, p \in DOMAIN activities :
        /\ activities[p].parent_id \in DOMAIN activities
        /\ activities[activities[p].parent_id].parent_id = a
        /\ update_activity(db, a, activities[a].name, p, TRUE).err = "cycle"

----------------------------------------------------------------------------
(* C3 *)

\* C3: no two stored activities share name and parent_id (the roots being
\* one sibling group), and a create or an update whose (name, parent_id)
\* another activity already has raises and leaves the store as it was
C3_SiblingUniqueness ==
    /\ \A a \in DOMAIN activities, b \in DOMAIN activities :
         a # b => ~SamePair(activities, b, activities[a].name, activities[a].parent_id)
    /\ \A name \in ActivityNames, parent_id \in ParentInputs :
         /\ (\E b \in DOMAIN activities : SamePair(activities, b, name, parent_id))
              => LET res == create_activity(db, name, parent_id)
                 IN res.outcome = "ValueError" /\ get_async_db(res) = db
         /\ \A a \in DOMAIN activities : \A asc \in RowOrders(a) :
              (\E b \in DOMAIN activities \ {a} : SamePair(activities, b, name, parent_id))
              => LET res == update_activity(db, a, name, parent_id, asc)
                 IN res.outcome = "ValueError" /\ get_async_db(res) = db

\* two siblings under one parent, where renaming one to the name of the
\* other is refused as a duplicate
C3_Witness ==
    \E a \in DOMAIN activities, b \in DOMAIN activities :
        /\ a # b
        /\ activities[a].parent_id = activities[b].parent_id
        /\ activities[a].parent_id # None
        /\ update_activity(db, a, activities[b].name, activities[a].parent_id, TRUE).err
             = "duplicate_name"

----------------------------------------------------------------------------
(* C4 *)

\* C4: whenever create_activity or update_activity raises ValueError, the
\* committed store after the request is the store before it, whatever the
\* session had rewritten before the error
C4_RejectedWriteKeepsStore ==
    /\ \A name \in ActivityNames, parent_id \in ParentInputs :
         LET res == create_activity(db, name, parent_id)
         IN res.outcome = "ValueError" => get_async_db(res) = db
    /\ \A a \in 1..activity_seq, name \in ActivityNames, parent_id \in ParentInputs :
       \A asc \in RowOrders(a) :
         LET res == update_activity(db, a, name, parent_id, asc)
         IN res.outcome = "ValueError" => get_async_db(res) = db

\* a re-parenting that fails on a descendant that would land at level 4,
\* after the session has rewritten the level of another descendant
C4_Witness ==
    \E a \in DOMAIN activities, parent_id \in DOMAIN activities :
        LET res == update_activity(db, a, activities[a].name, parent_id, TRUE)
        IN /\ res.err = "subtree_depth"
           /\ \E x \in DOMAIN res.pending :
                x # a /\ res.pending[x].level # activities[x].level

----------------------------------------------------------------------------
(* C5 *)

\* C5: after any sequence of create_organization, update_organization,
\* delete_organization, create_building, update_building and
\* delete_building requests run one at a time, the building_id of every
\* stored organization is the id of a building that currently exists.
C5_BuildingReference ==
    \A o \in DOMAIN organizations :
        organizations[o].building_id \in DOMAIN buildings

\* an organization stands in the second building and the first
\* building has been deleted
C5_Witness ==
    /\ 1 \notin DOMAIN buildings
    /\ 2 \in DOMAIN buildings
    /\ \E o \in DOMAIN organizations : organizations[o].building_id = 2

----------------------------------------------------------------------------
(* C6 *)

Occupied(building_id) ==
    \E o \in DOMAIN organizations : organizations[o].building_id = building_id

\* C6: delete_building on a building that some organization references
\* fails with a ValueError (HTTP 400) and leaves the store as it was; on
\* an existing building without organizations it removes exactly that
\* building (HTTP 204); on an unknown id it returns false (HTTP 404) and
\* changes nothing.
C6_BuildingDeletionGuard ==
    \A building_id \in 0..building_seq :
        LET res == delete_building(db, building_id)
            after == get_async_db(res)
        IN /\ (building_id \in DOMAIN buildings /\ Occupied(building_id)) =>
                 /\ res.outcome = "ValueError"
                 /\ res.err = "has_organizations"
                 /\ RouteStatus(res, 204) = 400
                 /\ after = db
           /\ (building_id \in DOMAIN buildings /\ ~Occupied(building_id)) =>
                 /\ res.outcome = "ok"
                 /\ RouteStatus(res, 204) = 204
                 /\ DOMAIN after.buildings = DOMAIN buildings \ {building_id}
                 /\ \A b \in DOMAIN after.buildings : after.buildings[b] = buildings[b]
                 /\ after = [db EXCEPT !.buildings = after.buildings]
           /\ building_id \notin DOMAIN buildings =>
                 /\ res.outcome = "absent"
                 /\ RouteStatus(res, 204) = 404
                 /\ after = db

\* a building with an organization next to an empty one, after a third
\* was deleted
C6_Witness ==
    /\ \E b1, b2 \in DOMAIN buildings : Occupied(b1) /\ ~Occupied(b2)
    /\ \E b \in 1..(building_seq - 1) : b \notin DOMAIN buildings

----------------------------------------------------------------------------
(* C7 *)

HasChild(activity_id) ==
    \E c \in DOMAIN activities : activities[c].parent_id = activity_id

Tagged(activity_id) ==
    \E oa \in organization_activity : oa[2] = activity_id

\* C7: delete_activity on an activity with at least one child or at least
\* one associated organization fails with a ValueError (HTTP 400) and
\* leaves the store as it was; an existing activity with neither is
\* removed (HTTP 204) and nothing else changes; an unknown id (HTTP 404)
\* removes nothing.
C7_ActivityDeletionGuard ==
    \A activity_id \in 0..activity_seq :
        LET res == delete_activity(db, activity_id)
            after == get_async_db(res)
        IN /\ (activity_id \in DOMAIN activities
                 /\ (HasChild(activity_id) \/ Tagged(activity_id))) =>
                 /\ res.outcome = "ValueError"
                 /\ RouteStatus(res, 204) = 400
                 /\ after = db
           /\ (activity_id \in DOMAIN activities
                 /\ ~HasChild(activity_id) /\ ~Tagged(activity_id)) =>
                 /\ res.outcome = "ok"
                 /\ RouteStatus(res, 204) = 204
                 /\ DOMAIN after.activities = DOMAIN activities \ {activity_id}
                 /\ \A a \in DOMAIN after.activities : after.activities[a] = activities[a]
                 /\ after = [db EXCEPT !.activities = after.activities]
           /\ activity_id \notin DOMAIN activities =>
                 /\ res.outcome = "absent"
                 /\ RouteStatus(res, 204) = 404
                 /\ after = db

\* a parent whose child is tagged by an organization
C7_Witness ==
    \E a, c \in DOMAIN activities :
        /\ activities[c].parent_id = a
        /\ Tagged(c)
        /\ ~Tagged(a)

----------------------------------------------------------------------------
(* C8 *)

\* C8: delete_organization on an existing organization succeeds; in the
\* store it leaves, the organization row, its phone rows and the
\* association rows naming it are gone, every other row, every activity
\* and every building is as before, and an activity that only this
\* organization tagged and that has no children can be deleted.
C8_OrganizationDeletion ==
    \A org_id \in DOMAIN organizations :
        LET res == delete_organization(db, org_id)
            after == get_async_db(res)
        IN /\ res.outcome = "ok"
           /\ RouteStatus(res, 204) = 204
           /\ org_id \notin DOMAIN after.organizations
           /\ \A r \in DOMAIN after.organization_phones : r.organization_id # org_id
           /\ \A oa \in after.organization_activity : oa[1] # org_id
           /\ after.activities = activities
           /\ after.buildings = buildings
           /\ after.activity_seq = activity_seq /\ after.building_seq = building_seq
           /\ \A o \in DOMAIN organizations \ {org_id} :
                /\ o \in DOMAIN after.organizations
                /\ after.organizations[o] = organizations[o]
           /\ \A r \in DOMAIN organization_phones :
                r.organization_id # org_id =>
                   /\ r \in DOMAIN after.organization_phones
                   /\ after.organization_phones[r] = organization_phones[r]
           /\ \A oa \in organization_activity :
                oa[1] # org_id => oa \in after.organization_activity
           /\ \A a \in DOMAIN activities :
                (/\ <<org_id, a>> \in organization_activity
                 /\ \A oa \in organization_activity : oa[2] = a => oa[1] = org_id
                 /\ ~HasChild(a))
                => delete_activity(after, a).outcome = "ok"

\* an organization with a phone that is the only one tagging a childless
\* activity
C8_Witness ==
    \E org_id \in DOMAIN organizations, a \in DOMAIN activities :
        /\ <<org_id, a>> \in organization_activity
        /\ \A oa \in organization_activity : oa[2] = a => oa[1] = org_id
        /\ ~HasChild(a)
        /\ \E r \in DOMAIN organization_phones : r.organization_id = org_id

----------------------------------------------------------------------------
(* C9 *)

\* C9: given an existing building and a non-empty activity_ids list,
\* create_organization is accepted if and only if every supplied id is the
\* id of an existing activity; otherwise it is rejected with the
\* activities-not-found error and inserts no association row and no phone
\* row.
C9_AcceptedIffAllResolve ==
    \A building_id \in DOMAIN buildings, name \in OrganizationNames,
       phone_numbers \in PhoneLists,
       activity_ids \in IdLists(1..activity_seq) \ {<<>>} :
        LET res == create_organization(db, name, building_id,
                                       phone_numbers, activity_ids)
            after == get_async_db(res)
        IN /\ res.outcome = "ok" <=> Elements(activity_ids) \subseteq DOMAIN activities
           /\ res.outcome # "ok" =>
                /\ res.outcome = "ValueError"
                /\ res.err = "activities_not_found"
                /\ after.organization_activity = organization_activity
                /\ after.organization_phones = organization_phones

----------------------------------------------------------------------------
(* C10 *)

Distinct(items) == Cardinality(Elements(items)) = Len(items)

\* C10: for an existing building, a list of phone numbers P and a list A
\* of distinct existing activity ids, create_organization(name, building,
\* P, A) followed by get_organization_by_id on the returned id yields the
\* organization with the supplied name and building_id, whose phones are
\* the numbers of P and whose activities are those of A, as sets.
C10_RoundTrip ==
    \A building_id \in DOMAIN buildings, name \in OrganizationNames,
       phone_numbers \in PhoneLists,
       activity_ids \in IdLists(DOMAIN activities) :
        Distinct(activity_ids) =>
            LET res == create_organization(db, name, building_id,
                                           phone_numbers, activity_ids)
                got == get_organization_by_id(get_async_db(res), res.id)
            IN /\ res.outcome = "ok"
               /\ got.found
               /\ got.id = res.id
               /\ got.name = name
               /\ got.building_id = building_id
               /\ got.phones = Elements(phone_numbers)
               /\ got.activities = Elements(activity_ids)

\* the stored organization of a request with two phone numbers and two
\* activity ids
C10_Witness ==
    \E org_id \in DOMAIN organizations :
        LET got == get_organization_by_id(db, org_id)
        IN /\ got.phones = PhoneNumbers
           /\ Cardinality(got.activities) = 2

----------------------------------------------------------------------------
(* C11 *)

AssociatedWith(S) ==
    {o \in DOMAIN organizations : \E a \in S : <<o, a>> \in organization_activity}

\* C11: with skip = 0 and a limit of at least the result size,
\* get_organizations_by_activity(a, include_children = true) returns
\* exactly the organizations associated with a or with a transitive
\* descendant of a, and with include_children = false exactly those
\* associated with a itself; each organization appears at most once.
C11_TransitiveActivityFilter ==
    \A activity_id \in 0..activity_seq, asc \in BOOLEAN :
        LET below == AssociatedWith(Subtree(activities, {activity_id}))
            own == AssociatedWith({activity_id})
        IN /\ \A limit \in {Cardinality(below), 100} \ {0} :
                LET rows == get_organizations_by_activity(db, activity_id, TRUE,
                                                          0, limit, asc)
                IN Elements(rows) = below /\ Len(rows) = Cardinality(below)
           /\ \A limit \in {Cardinality(own), 100} \ {0} :
                LET rows == get_organizations_by_activity(db, activity_id, FALSE,
                                                          0, limit, asc)
                IN Elements(rows) = own /\ Len(rows) = Cardinality(own)

\* an organization tagged with the child and the grandchild of a root but
\* not with the root
C11_Witness ==
    \E o \in DOMAIN organizations, a, b, c \in DOMAIN activities :
        /\ activities[b].parent_id = a
        /\ activities[c].parent_id = b
        /\ <<o, b>> \in organization_activity
        /\ <<o, c>> \in organization_activity
        /\ <<o, a>> \notin organization_activity

----------------------------------------------------------------------------
(* C12 *)

KeyMatches(api_key) == api_key.present /\ api_key.value = settings_api_key

\* C12: every route depends on verify_api_key; a request whose X-API-Key
\* header is absent or differs from the configured key never reaches its
\* route, is answered with 401 and takes no step that changes the store;
\* a request whose header equals the configured key is not answered with
\* 401.
C12_AuthGate ==
    /\ [](/\ \A route \in Routes :
               \E i \in DOMAIN Dependencies(route) :
                   Dependencies(route)[i] = "verify_api_key"
          /\ \A r \in DOMAIN requests :
               LET q == requests[r]
               IN /\ ~KeyMatches(q.api_key) =>
                       /\ q.pc # "route"
                       /\ ~q.invoked
                       /\ q.pc \in {"close", "done"} => q.outcome.status_code = 401
                       /\ q.pc = "done" => q.response.status_code = 401
                  /\ KeyMatches(q.api_key) =>
                       /\ q.outcome.status_code # 401
                       /\ q.response.status_code # 401
                       /\ q.pc = "done" => q.invoked)
    /\ [][db' # db =>
            \E r \in DOMAIN requests :
                /\ KeyMatches(requests[r].api_key)
                /\ requests[r].pc = "route"
                /\ requests'[r].invoked]_vars

\* a request with a wrong key was answered 401 after a request with the
\* configured key had written to the store
C12_Witness ==
    \E r1, r2 \in DOMAIN requests :
        /\ requests[r1].api_key = Header("wrong-key")
        /\ requests[r1].pc = "done"
        /\ requests[r1].response.status_code = 401
        /\ KeyMatches(requests[r2].api_key)
        /\ requests[r2].pc = "done"
        /\ requests[r2].response.status_code = 201
        /\ db # [db EXCEPT !.buildings = EmptyFn, !.activities = EmptyFn]

----------------------------------------------------------------------------
(* C13 *)

\* C13: when the service returns an absent result for an organization,
\* building or activity id, the response has status 404 and its detail is
\* the message of the route, not the body of the fallback for unmatched
\* paths.
C13_RouteSpecificNotFound ==
    \A r \in DOMAIN requests :
        LET q == requests[r]
        IN (q.pc = "done" /\ q.invoked /\ q.outcome.status_code = 404) =>
              /\ q.response.status_code = 404
              /\ q.response.detail \in {"Organization not found",
                                        "Building not found",
                                        "Activity not found"}
              /\ q.response.detail = q.outcome.detail

----------------------------------------------------------------------------
(* C14 *)

\* C14: every phone row created through create_organization has a
\* phone_number whose first character is '+' or '8'; a creation request
\* with a phone number that starts otherwise is rejected and stores no
\* phone row.
C14_PhonePrefixOnCreation ==
    \A building_id \in DOMAIN buildings, name \in OrganizationNames,
       phone_numbers \in PhoneLists \cup {<<Seven7>>, <<Plus7, Seven7>>, <<<<>>>>} :
        LET accepted == OrganizationCreate_phone_numbers(phone_numbers)
            res == create_organization(db, name, building_id, phone_numbers, <<>>)
            after == IF accepted THEN get_async_db(res) ELSE db
            starts_well(v) == v # <<>> /\ (v[1] = "+" \/ v[1] = "8")
        IN /\ \A row \in DOMAIN after.organization_phones :
                row.organization_id = res.id => starts_well(row.phone_number)
           /\ (\E i \in 1..Len(phone_numbers) : ~starts_well(phone_numbers[i])) =>
                /\ ~accepted \/ res.outcome # "ok"
                /\ after.organization_phones = organization_phones

----------------------------------------------------------------------------
(* C15 *)

InRanges(latitude, longitude) ==
    latitude \in -90..90 /\ longitude \in -180..180

\* C15: after any sequence of create_building and update_building calls
\* every stored building has its latitude in [-90, 90] and its longitude
\* in [-180, 180]; a call with a value outside either range is rejected
\* and writes nothing; a call with values in range, the ends of the
\* ranges included, is accepted and stores them.
C15_BuildingCoordinates ==
    /\ \A b \in DOMAIN buildings :
          InRanges(buildings[b].latitude, buildings[b].longitude)
    /\ \A address \in Addresses, latitude \in EdgeLatitudes \cup {95},
          longitude \in EdgeLongitudes :
          LET created == create_building(db, address, latitude, longitude)
          IN /\ ~InRanges(latitude, longitude) =>
                  /\ created.outcome = "ValueError"
                  /\ get_async_db(created) = db
             /\ InRanges(latitude, longitude) =>
                  /\ created.outcome = "ok"
                  /\ get_async_db(created).buildings[created.id] =
                        [address |-> address, latitude |-> latitude,
                         longitude |-> longitude]
             /\ \A building_id \in DOMAIN buildings :
                  LET updated == update_building(db, building_id, address,
                                                 latitude, longitude)
                  IN /\ ~InRanges(latitude, longitude) =>
                          /\ updated.outcome = "ValueError"
                          /\ get_async_db(updated) = db
                     /\ InRanges(latitude, longitude) =>
                          /\ updated.outcome = "ok"
                          /\ get_async_db(updated).buildings[building_id] =
                                [address |-> address, latitude |-> latitude,
                                 longitude |-> longitude]

\* buildings stored at opposite corners of the ranges, one of them moved
\* there
C15_Witness ==
    /\ building_seq > 2
    /\ \E b1, b2 \in DOMAIN buildings :
          /\ buildings[b1].latitude = 90 /\ buildings[b1].longitude = -180
          /\ buildings[b2].latitude = -90 /\ buildings[b2].longitude = 180

----------------------------------------------------------------------------
(* C16 *)

\* radius searches from centres on the equator: a radius of one degree of
\* the box, of one degree of the geodesic, of two degrees of the geodesic
RadiusSearches ==
    {[search_type |-> "radius", latitude |-> 0, longitude |-> longitude,
      radius_km |-> radius_km, north_lat |-> None, south_lat |-> None,
      east_lng |-> None, west_lng |-> None] :
        longitude \in {0, 1}, radius_km \in {111000, EquatorDegree, 2 * EquatorDegree}}

DistanceTo(geo_search, o) ==
    LET building == buildings[organizations[o].building_id]
    IN calculate_distance(geo_search.latitude, geo_search.longitude,
                          building.latitude, building.longitude)

\* C16: every organization a radius search returns has a building whose
\* distance from the centre, as calculate_distance computes it, is at most
\* radius_km; an organization at exactly radius_km is returned.
C16_GeoRadius ==
    \A geo_search \in RadiusSearches, asc \in BOOLEAN :
        /\ validate_search_parameters(geo_search)
        /\ \A skip \in {0, 1}, limit \in {1, 100} :
              \A o \in Elements(geo_search_organizations(db, geo_search,
                                                         skip, limit, asc)) :
                  /\ o \in DOMAIN organizations
                  /\ organizations[o].building_id \in DOMAIN buildings
                  /\ DistanceTo(geo_search, o) <= geo_search.radius_km
        /\ \A o \in DOMAIN organizations :
              DistanceTo(geo_search, o) = geo_search.radius_km =>
                 o \in Elements(geo_search_organizations(db, geo_search, 0, 100, asc))

\* organizations one and two degrees of longitude from the centre at 0:
\* the first is inside the box of a 111 km search but 111.319 km away,
\* and at exactly the radius of a 111.319 km search
C16_Witness ==
    \E o1, o2 \in DOMAIN organizations :
        /\ buildings[organizations[o1].building_id].longitude = 1
        /\ buildings[organizations[o2].building_id].longitude = 2

----------------------------------------------------------------------------
(* C17 *)

RectangleSearches ==
    {[search_type |-> "rectangle", latitude |-> 0, longitude |-> 0,
      radius_km |-> radius_km, north_lat |-> north_lat, south_lat |-> south_lat,
      east_lng |-> east_lng, west_lng |-> west_lng] :
        radius_km \in {None, 1}, south_lat \in {-1, 0, 1}, north_lat \in {0, 2},
        west_lng \in {0, 1}, east_lng \in {0, 1, 2}}

\* C17: with skip = 0 and a limit of at least the result size, a rectangle
\* search returns exactly the organizations whose building has
\* south_lat <= latitude <= north_lat and west_lng <= longitude <= east_lng,
\* each once; no distance narrows the result.
C17_GeoRectangle ==
    \A geo_search \in RectangleSearches, asc \in BOOLEAN :
        validate_search_parameters(geo_search) =>
            LET inside == {o \in DOMAIN organizations :
                              LET building == buildings[organizations[o].building_id]
                              IN /\ geo_search.south_lat <= building.latitude
                                 /\ building.latitude <= geo_search.north_lat
                                 /\ geo_search.west_lng <= building.longitude
                                 /\ building.longitude <= geo_search.east_lng}
            IN \A limit \in {Cardinality(inside), 100} \ {0} :
                  LET rows == geo_search_organizations(db, geo_search, 0, limit, asc)
                  IN Elements(rows) = inside /\ Len(rows) = Cardinality(inside)

\* two organizations in one building at longitude 1 and none elsewhere:
\* on the west or east side of some rectangles, outside others
C17_Witness ==
    /\ Cardinality(DOMAIN organizations) = 2
    /\ \A o \in DOMAIN organizations :
          buildings[organizations[o].building_id].longitude = 1
    /\ \E b \in DOMAIN buildings : buildings[b].longitude = 2

----------------------------------------------------------------------------
(* C18 *)

\* the store after a building and n organizations in it were created
RECURSIVE Populated(_)
Populated(n) ==
    IF n = 0
    THEN create_building([db EXCEPT !.buildings = EmptyFn, !.building_seq = 1,
                                    !.organizations = EmptyFn,
                                    !.organization_seq = 1,
                                    !.organization_phones = EmptyBag,
                                    !.organization_activity = {}],
                         "Lenina 1", 0, 0).db
    ELSE create_organization(Populated(n - 1), "Cafe", 1, <<>>, <<>>).db

\* the envelope of GET /organizations/ without filters
Unfiltered(d, page, per_page, asc) ==
    get_organizations(d, page, per_page, None, None, "", TRUE, asc)

\* C18: GET /organizations/ without filters, on a store of T organizations,
\* for a page >= 1 and a per_page in [1, 100], answers total = T,
\* pages = ceiling(T / per_page) and min(per_page, max(0, T - (page - 1) *
\* per_page)) items; T = 25 and per_page = 10 give 3 pages and 5 items on
\* page 3.
C18_PaginationArithmetic ==
    /\ \A page \in 1..MaxPage, per_page \in {1, 2, 3, 100}, asc \in BOOLEAN :
          LET T == Cardinality(DOMAIN organizations)
              envelope == Unfiltered(db, page, per_page, asc)
              rest == T - (page - 1) * per_page
          IN /\ envelope.total = T
             /\ envelope.pages * per_page >= T
             /\ (envelope.pages - 1) * per_page < T \/ envelope.pages = 0
             /\ envelope.pages >= 0
             /\ Len(envelope.items) =
                   IF rest <= 0 THEN 0 ELSE IF rest < per_page THEN rest ELSE per_page
             /\ Elements(envelope.items) \subseteq DOMAIN organizations
    /\ LET envelope == Unfiltered(Populated(25), 3, 10, TRUE)
       IN /\ envelope.total = 25
          /\ envelope.pages = 3
          /\ Len(envelope.items) = 5

\* three organizations: a last page of one item when per_page is 2, an
\* empty page 3
C18_Witness ==
    /\ Cardinality(DOMAIN organizations) = 3
    /\ Len(Unfiltered(db, 2, 2, TRUE).items) = 1
    /\ Unfiltered(db, 3, 2, TRUE).items = <<>>

----------------------------------------------------------------------------
(* C19 *)

\* C19: the items of GET /organizations/ are those of one service query:
\* by building if building_id is supplied, else by activity (honouring
\* include_child_activities) if activity_id is supplied, else the name
\* search if name_query is supplied, else the unfiltered listing;
\* parameters of lower priority have no effect on the items.
C19_DispatchPriority ==
    \A page \in 1..MaxPage, per_page \in {1, 100}, asc \in BOOLEAN,
       building_id \in {None} \cup 0..building_seq,
       activity_id \in {None} \cup 0..activity_seq,
       name_query \in {"", "caf"}, include_child_activities \in BOOLEAN :
        LET skip == (page - 1) * per_page
            items == get_organizations(db, page, per_page, building_id,
                                       activity_id, name_query,
                                       include_child_activities, asc).items
        IN items =
             IF building_id # None
                THEN get_organizations_by_building(db, building_id, skip,
                                                   per_page, asc)
             ELSE IF activity_id # None
                THEN get_organizations_by_activity(db, activity_id,
                         include_child_activities, skip, per_page, asc)
             ELSE IF name_query # ""
                THEN search_organizations_by_name(db, name_query, skip,
                                                  per_page, asc)
             ELSE get_all_organizations(db, skip, per_page, asc)

----------------------------------------------------------------------------
(* C20 *)

\* C20: a request that has finished has a closed session, whichever way it
\* left (the route returned, raised an HTTP error for a domain error or a
\* missing row, the key was refused, or something unexpected failed); no two
\* requests share a session, and a session that is open belongs to a request
\* that has not finished.
C20_SessionScoping ==
    /\ \A r \in DOMAIN requests :
          /\ requests[r].session \in DOMAIN sessions
          /\ requests[r].pc = "done" => sessions[requests[r].session] = "closed"
    /\ \A r1, r2 \in DOMAIN requests :
          requests[r1].session = requests[r2].session => r1 = r2
    /\ \A s \in DOMAIN sessions :
          sessions[s] = "open" =>
             \E r \in DOMAIN requests :
                /\ requests[r].session = s
                /\ requests[r].pc # "done"

\* two requests have finished, one on an unexpected failure and one on an
\* HTTP error, each with a session of its own, both closed
C20_Witness ==
    \E r1, r2 \in DOMAIN requests :
        /\ requests[r1].pc = "done" /\ requests[r2].pc = "done"
        /\ requests[r1].outcome.kind = "Exception"
        /\ requests[r2].outcome.kind = "HTTPException"
        /\ requests[r1].session # requests[r2].session
        /\ sessions[requests[r1].session] = "closed"
        /\ sessions[requests[r2].session] = "closed"

----------------------------------------------------------------------------
(* C21 *)

\* the rows a run of the utility has inserted: those with the ids the
\* sequences have handed out since it started
InsertedByRun(d, first) ==
    [buildings |-> {b \in DOMAIN d.buildings : b >= first[1]},
     activities |-> {a \in DOMAIN d.activities : a >= first[2]},
     organizations |-> {o \in DOMAIN d.organizations : o >= first[3]}]

\* C21: a run of the seeding utility on a store that a previous run has
\* populated, with the foreign keys in force, ends without error and leaves
\* what a single run on an empty store leaves (7 buildings, the 3-level
\* tree, 10 organizations with phones and associations), no row of the
\* previous run surviving.
C21_SeedingIdempotentByWipe ==
    (/\ seeding.on_populated
     /\ seeding.pc \in {"done", "failed"}
     /\ seeding.error # "ConnectionError")
    => /\ seeding.pc = "done"
       /\ Contents(db) = Contents(Seeded)
       /\ Contents(db).building_count = 7
       /\ Contents(db).organization_count = 10
       /\ InsertedByRun(db, seeding.first).buildings = DOMAIN buildings
       /\ InsertedByRun(db, seeding.first).activities = DOMAIN activities
       /\ InsertedByRun(db, seeding.first).organizations = DOMAIN organizations
       /\ \A oa \in organization_activity : oa[1] >= seeding.first[3]

----------------------------------------------------------------------------
(* C28 *)

\* C28: when a run of the seeding utility fails at any step, the store
\* holds none of the rows that run inserted, and the error is raised again.
C28_SeedingFailureRollsBackBatch ==
    seeding.pc = "failed"
    => /\ seeding.error # ""
       /\ InsertedByRun(db, seeding.first).buildings = {}
       /\ InsertedByRun(db, seeding.first).activities = {}
       /\ InsertedByRun(db, seeding.first).organizations = {}

----------------------------------------------------------------------------
(* C22 *)

\* two calls of create_activity with the same name and the same parent (a
\* stored activity, or none)
SameCreation(t1, t2) ==
    /\ t1 # t2
    /\ tasks[t1].op = "create_activity" /\ tasks[t2].op = "create_activity"
    /\ tasks[t1].name = tasks[t2].name
    /\ tasks[t1].parent_id = tasks[t2].parent_id
    /\ tasks[t1].parent_id \in {None} \cup DOMAIN activities

\* C22: two create_activity calls with the same name and parent that have
\* both run the uniqueness query before either commits both pass it and
\* both commit: the commit of a call that passed the query is not refused
\* for a sibling of the same name, and the rows of two such calls that
\* returned are both in the store with the same (name, parent_id).
C22_DuplicateSiblingRace ==
    /\ [](\A t1, t2 \in DOMAIN tasks :
            (/\ SameCreation(t1, t2)
             /\ tasks[t1].pc = "done" /\ tasks[t1].outcome = "ok"
             /\ tasks[t2].pc = "done" /\ tasks[t2].outcome = "ok")
            => /\ tasks[t1].activity_id # tasks[t2].activity_id
               /\ {tasks[t1].activity_id, tasks[t2].activity_id} \subseteq DOMAIN activities
               /\ SamePair(activities, tasks[t1].activity_id,
                           tasks[t1].name, tasks[t1].parent_id)
               /\ SamePair(activities, tasks[t2].activity_id,
                           tasks[t1].name, tasks[t1].parent_id))
    /\ [][\A t1, t2 \in DOMAIN tasks :
            (/\ SameCreation(t1, t2)
             /\ tasks[t1].pc = "commit"
             /\ tasks[t2].pc \in {"commit", "done"}
             /\ tasks'[t1].pc = "done")
            => /\ tasks'[t1].outcome = "ok"
               /\ tasks'[t1].activity_id \in DOMAIN activities'
               /\ activities'[tasks'[t1].activity_id].name = tasks[t1].name
               /\ activities'[tasks'[t1].activity_id].parent_id = tasks[t1].parent_id]_vars

\* both calls have returned their activity: two rows under one parent have
\* one name
C22_Witness ==
    \E t1, t2 \in DOMAIN tasks :
        /\ SameCreation(t1, t2)
        /\ tasks[t1].pc = "done" /\ tasks[t1].outcome = "ok"
        /\ tasks[t2].pc = "done" /\ tasks[t2].outcome = "ok"
        /\ tasks[t1].parent_id \in DOMAIN activities
        /\ \E a, b \in DOMAIN activities :
              /\ a # b
              /\ activities[a].name = activities[b].name
              /\ activities[a].parent_id = activities[b].parent_id

----------------------------------------------------------------------------
(* C23 *)

\* update_activity(A, parent = B) and update_activity(B, parent = A)
Crossed(t1, t2) ==
    /\ t1 # t2
    /\ tasks[t1].op = "update_activity" /\ tasks[t2].op = "update_activity"
    /\ tasks[t1].activity_id # tasks[t2].activity_id
    /\ tasks[t1].parent_id = tasks[t2].activity_id
    /\ tasks[t2].parent_id = tasks[t1].activity_id

\* no other call is for the activity of t1 or of t2
Alone(t1, t2) ==
    \A t \in DOMAIN tasks \ {t1, t2} :
        tasks[t].activity_id \notin {tasks[t1].activity_id, tasks[t2].activity_id}

\* C23: update_activity(A, parent = B) and update_activity(B, parent = A)
\* whose cycle checks have both read the store before either commits are
\* both accepted: the commit of one that has passed its checks is not
\* refused for a cycle, and once both have returned the activity, A and B
\* are each other's parent.
C23_ReparentingRace ==
    /\ [](\A t1, t2 \in DOMAIN tasks :
            (/\ Crossed(t1, t2) /\ Alone(t1, t2)
             /\ tasks[t1].pc = "done" /\ tasks[t1].outcome = "ok"
             /\ tasks[t2].pc = "done" /\ tasks[t2].outcome = "ok")
            => /\ activities[tasks[t1].activity_id].parent_id = tasks[t2].activity_id
               /\ activities[tasks[t2].activity_id].parent_id = tasks[t1].activity_id)
    /\ [][\A t1, t2 \in DOMAIN tasks :
            (/\ Crossed(t1, t2)
             /\ tasks[t1].pc = "commit"
             /\ tasks[t2].pc = "commit" \/ (tasks[t2].pc = "done" /\ tasks[t2].outcome = "ok")
             /\ tasks'[t1].pc = "done")
            => tasks'[t1].err # "cycle"]_vars

\* both calls have returned the activity; each of the two activities is the
\* parent, and so an ancestor, of the other
C23_Witness ==
    \E t1, t2 \in DOMAIN tasks :
        /\ Crossed(t1, t2)
        /\ tasks[t1].pc = "done" /\ tasks[t1].outcome = "ok"
        /\ tasks[t2].pc = "done" /\ tasks[t2].outcome = "ok"
        /\ activities[tasks[t1].activity_id].parent_id = tasks[t2].activity_id
        /\ activities[tasks[t2].activity_id].parent_id = tasks[t1].activity_id

----------------------------------------------------------------------------
(* C24 *)

\* the call was refused for an activity id that does not resolve
Unresolved(t) ==
    /\ tasks[t].op = "create_organization"
    /\ tasks[t].pc = "done"
    /\ tasks[t].err = "activities_not_found"

\* C24: when create_organization is refused because a supplied activity id
\* does not resolve, the response is 400 and the organization row committed
\* before the check stays in the store, with its name and building_id,
\* without phones and without associations.
C24_PartialPersistence ==
    \A t \in DOMAIN tasks :
        Unresolved(t) =>
            LET org_id == tasks[t].org_id
                res == Result(tasks[t].outcome, tasks[t].err, db, org_id, EmptyFn)
            IN /\ RouteOutcome("create_organization", res).status_code = 400
               /\ org_id \in DOMAIN organizations
               /\ organizations[org_id] = [name |-> tasks[t].name,
                                           building_id |-> tasks[t].building_id]
               /\ PhonesOfOrganization(db, org_id) = {}
               /\ {oa \in organization_activity : oa[1] = org_id} = {}

\* a call was refused for an id that no activity has, though another id of
\* its list resolves; its organization is in the store
C24_Witness ==
    \E t \in DOMAIN tasks :
        /\ Unresolved(t)
        /\ Elements(tasks[t].activity_ids) \cap DOMAIN activities # {}
        /\ ~(Elements(tasks[t].activity_ids) \subseteq DOMAIN activities)
        /\ tasks[t].org_id \in DOMAIN organizations
----------------------------------------------------------------------------
(* C25 *)

\* the organizations inside the bounding box of a radius search, in the
\* order of the rows
Candidates(geo_search, asc) ==
    LET in_box(o) == GeoWhere(geo_search, buildings[organizations[o].building_id])
    IN SelectSeq(RowOrder(DOMAIN organizations, asc), in_box)

\* rows skip + 1 .. skip + limit of a sequence
Window(rows, skip, limit) ==
    LET rest == IF Len(rows) > skip THEN Len(rows) - skip ELSE 0
    IN [i \in 1..(IF limit < rest THEN limit ELSE rest) |-> rows[skip + i]]

GeoWindows == {0, 1} \X {1, 2, 100}

\* C25: a radius search returns exactly the organizations of the window
\* [skip, skip + limit) of the bounding-box candidates whose exact distance
\* is at most radius_km, in the order of the window.
C25_RadiusPaginatesFirst ==
    \A geo_search \in RadiusSearches, asc \in BOOLEAN, w \in GeoWindows :
        LET window == Window(Candidates(geo_search, asc), w[1], w[2])
            near(o) == DistanceTo(geo_search, o) <= geo_search.radius_km
        IN geo_search_organizations(db, geo_search, w[1], w[2], asc)
              = SelectSeq(window, near)

\* a search whose window is full returns fewer organizations than its
\* limit while an organization within the radius lies outside the window
C25_Witness ==
    \E geo_search \in RadiusSearches, asc \in BOOLEAN, w \in GeoWindows :
        LET candidates == Candidates(geo_search, asc)
            window == Window(candidates, w[1], w[2])
        IN /\ Len(window) = w[2]
           /\ Len(geo_search_organizations(db, geo_search, w[1], w[2], asc)) < w[2]
           /\ \E o \in Elements(candidates) \ Elements(window) :
                 DistanceTo(geo_search, o) <= geo_search.radius_km
----------------------------------------------------------------------------
(* C26 *)

\* C26: in every answer of GET /organizations/ total is the number of
\* organizations that the query behind the items matches, that is the
\* number of items of all its pages together, whichever of building_id,
\* activity_id and name_query are supplied.
C26_TotalAgreesWithItems ==
    \A page \in 1..MaxPage, per_page \in {1, 100}, asc \in BOOLEAN,
       building_id \in {None} \cup 1..building_seq,
       activity_id \in {None} \cup 1..activity_seq,
       name_query \in {"", "caf"}, include_child_activities \in BOOLEAN :
        LET envelope == get_organizations(db, page, per_page, building_id,
                                          activity_id, name_query,
                                          include_child_activities, asc)
            every == get_organizations(db, 1, 100, building_id, activity_id,
                                       name_query, include_child_activities, asc)
        IN envelope.total = Len(every.items)
----------------------------------------------------------------------------
(* C27 *)

\* the phone rows of an organization, with how many there are of each
PhoneBagOf(d, org_id) ==
    [r \in PhonesOfOrganization(d, org_id) |-> d.organization_phones[r]]

ActivitiesOf(d, org_id) == {oa \in d.organization_activity : oa[1] = org_id}

\* the requests: each list absent, empty, or with an element
UpdatePhoneOptions == {Absent, Given(<<>>), Given(<<Eight8>>)}
UpdateIdOptions == {Absent, Given(<<>>), Given(<<1>>)}

\* C27: update_organization leaves the stored value of each of name,
\* building_id, phone_numbers and activity_ids that the request does not
\* supply as it was; an empty list for phone_numbers or activity_ids
\* removes all phones or all associations of the organization; the data of
\* no other organization changes.
C27_UpdateTouchesOnlySupplied ==
    \A org_id \in DOMAIN organizations, name \in {"", "Bakery"},
       building_id \in {None} \cup DOMAIN buildings,
       phone_numbers \in UpdatePhoneOptions, activity_ids \in UpdateIdOptions :
        LET res == update_organization(db, org_id, name, building_id,
                                       phone_numbers, activity_ids)
            after == res.db
        IN /\ res.outcome = "ok"
           /\ DOMAIN after.organizations = DOMAIN organizations
           /\ name = "" => after.organizations[org_id].name = organizations[org_id].name
           /\ building_id = None =>
                 after.organizations[org_id].building_id
                    = organizations[org_id].building_id
           /\ ~phone_numbers.given => PhoneBagOf(after, org_id) = PhoneBagOf(db, org_id)
           /\ ~activity_ids.given => ActivitiesOf(after, org_id) = ActivitiesOf(db, org_id)
           /\ phone_numbers = Given(<<>>) => PhonesOfOrganization(after, org_id) = {}
           /\ activity_ids = Given(<<>>) => ActivitiesOf(after, org_id) = {}
           /\ \A other \in DOMAIN organizations \ {org_id} :
                 /\ after.organizations[other] = organizations[other]
                 /\ PhoneBagOf(after, other) = PhoneBagOf(db, other)
                 /\ ActivitiesOf(after, other) = ActivitiesOf(db, other)
           /\ after.buildings = buildings
           /\ after.activities = activities

\* two organizations with phones and activities: an update of one that
\* supplies nothing, or empty lists, has something to keep or to remove
C27_Witness ==
    \E org_id, other \in DOMAIN organizations :
        /\ org_id # other
        /\ PhonesOfOrganization(db, org_id) # {}
        /\ ActivitiesOf(db, org_id) # {}
        /\ PhonesOfOrganization(db, other) # {}
        /\ ActivitiesOf(db, other) # {}
        /\ LET cleared == update_organization(db, org_id, "", None,
                                              Given(<<>>), Given(<<>>)).db
           IN /\ PhonesOfOrganization(cleared, org_id) = {}
              /\ ActivitiesOf(cleared, org_id) = {}
----------------------------------------------------------------------------
(* C29 *)

\* a walk that visits no activity twice is over within this many calls
WalkFuel == Cardinality(DOMAIN activities) + 1

\* C29: in every store that activity service calls made one after the
\* other lead to, _get_activity_with_children(id) ends, recurses at most
\* 2 levels below id and returns id and every activity below it, each
\* once; the loops of _would_create_cycle and get_activity_path end
\* within 3 steps.
C29_TreeWalksTerminate ==
    /\ \A id \in DOMAIN activities :
          LET walk == ChildrenWalk(activities, id, WalkFuel)
              ids == _get_activity_with_children(activities, id)
          IN /\ walk.ended
             /\ walk.depth <= 2
             /\ ids = <<id>> \o walk.ids
             /\ Elements(ids) = Subtree(activities, {id})
             /\ Len(ids) = Cardinality(Elements(ids))
    /\ \A activity_id \in 1..activity_seq, new_parent_id \in DOMAIN activities :
          LET walk == CycleSteps(activities, activity_id, new_parent_id, WalkFuel)
          IN /\ walk.ended
             /\ walk.steps <= 3
             /\ _would_create_cycle(activities, activity_id, new_parent_id)
                   \in {"clear", "cycle"}
    /\ \A id \in DOMAIN activities :
          LET walk == get_activity_path(activities, id, WalkFuel)
          IN /\ walk.ended
             /\ walk.steps <= 3
             /\ walk.path[Len(walk.path)] = id
             /\ activities[walk.path[1]].parent_id = None

\* a chain of three activities: the walk down from its top recurses 2
\* levels, the walks up from its bottom take 3 steps
C29_Witness ==
    \E top, bottom \in DOMAIN activities :
        /\ ChildrenWalk(activities, top, WalkFuel).depth = 2
        /\ bottom \in Elements(_get_activity_with_children(activities, top))
        /\ get_activity_path(activities, bottom, WalkFuel).steps = 3
        /\ CycleSteps(activities, activity_seq, bottom, WalkFuel).steps = 3
----------------------------------------------------------------------------
(* C30 *)

====
